---- MODULE Spec2Model ----
(***************************************************************************)
(* Monsters Aliens Fame And Glory (Beta) 0.15: the command interpreter and *)
(* the world state machine of the text adventure.                          *)
(*                                                                         *)
(* Command lines are TLA+ strings, handled with Len, SubSeq and \o the way *)
(* the Python code handles them with len, slices, find and strip.  One     *)
(* iteration of the main loop is split at the place where the engine       *)
(* blocks on input: Prologue runs the loop body up to input(">"), Turn     *)
(* reads the line(s) and runs the handler chain to the end of the body.    *)
(***************************************************************************)
EXTENDS Integers, Sequences, FiniteSets, TLC

(***************************************************************************)
(* Python string primitives.                                               *)
(***************************************************************************)
Min2(a, b) == IF a < b THEN a ELSE b

\* s[a:b] for 0 <= a, 0 <= b (slices clamp to the length of s)
Sl(s, a, b) == SubSeq(s, a + 1, Min2(b, Len(s)))

\* s[a:]
From(s, a) == SubSeq(s, a + 1, Len(s))

\* s.find(sub): the lowest index where sub occurs in s, -1 when it does not
Find(s, sub) ==
  LET hits == {i \in 0..(Len(s) - Len(sub)) : SubSeq(s, i + 1, i + Len(sub)) = sub}
  IN  IF hits = {} THEN -1 ELSE CHOOSE i \in hits : \A j \in hits : i <= j

\* sub in s
Contains(s, sub) == Find(s, sub) # -1

RECURSIVE LStrip(_)
LStrip(s) == IF Len(s) > 0 /\ SubSeq(s, 1, 1) = " " THEN LStrip(From(s, 1)) ELSE s

RECURSIVE RStrip(_)
RStrip(s) ==
  IF Len(s) > 0 /\ SubSeq(s, Len(s), Len(s)) = " " THEN RStrip(Sl(s, 0, Len(s) - 1)) ELSE s

\* s.strip()
Strip(s) == RStrip(LStrip(s))

\* s.find(item) == 0 and s[len(item):len(item) + 1] in space_after_action_dict
space_after_action_dict == {" ", ""}

StartsWord(s, item) ==
  Find(s, item) = 0 /\ Sl(s, Len(item), Len(item) + 1) \in space_after_action_dict

(***************************************************************************)
(* Vocabulary tables.                                                      *)
(***************************************************************************)
cabin_dict == {"cabin", "log cabin", "creepy log cabin"}
bathroom_dict == {"bathroom", "bath room", "washroom", "wash room"}
bedroom_dict == {"bedroom", "bed room"}
living_room_dict == {"living room", "livingroom", "main room", "lobby"}
grassy_field_dict == {"grassy field", "field", "open field"}
mineshaft_dict == {"mineshaft", "mine shaft", "mine", "cave", "mine cave"}
forest_dict == {"forest", "woods", "tree forest"}

north_dict == {"n", "north"}
east_dict == {"e", "east"}
south_dict == {"s", "south"}
west_dict == {"w", "west"}
northeast_dict == {"ne", "n e", "n-e", "northeast", "north east", "north-east"}
southeast_dict == {"se", "s e", "s-e", "southeast", "south east", "south-east"}
southwest_dict == {"sw", "s w", "s-w", "southwest", "south west", "south-west"}
northwest_dict == {"nw", "n w", "n-w", "northwest", "north west", "north-west"}
nesw_dict ==
  north_dict \cup east_dict \cup south_dict \cup west_dict \cup northeast_dict
    \cup southeast_dict \cup southwest_dict \cup northwest_dict
left_dict == {"left", "l"}
right_dict == {"right", "r"}

floor1_dict == {"1st floor", "1stfloor", "floor 1", "first floor"}
floor2_dict == {"2nd floor", "2ndfloor", "floor 2", "second floor"}
floor3_dict == {"3rd floor", "3rdfloor", "floor 3", "third floor"}

go_to_upstairs_dict ==
  {"upstairs", "up stairs", "upper floor", "up a level", "up", "u", "next floor up"}
go_to_downstairs_dict ==
  {"downstairs", "down stairs", "lower floor", "down a level", "down", "d", "next floor down"}

open_curtains_dict ==
  {"pull back curtain", "pull back curtains", "open curtain", "open curtains",
   "draw back curtain", "draw back curtains"}
fire_place_dict == {"fireplace", "fire place"}
take_object_dict == {"take", "grab", "snatch", "pick up"}
abilities == {"pick up"}

look_around_dict == {"look around", "check surroundings"}
save_game_dict == {"save", "save game"}
go_back_dict == {"go back", "go to previous part"}
load_game_dict == {"load game", "load"}
examine_dict == {"examine", "x", "inspect", "describe", "check"}
tp_to_dict == {"tp to", "tp"}
enter_dict == {"enter", "go inside", "go in"}
leave_dict == {"leave", "exit"}
goto_dict == {"go to", "go"}
fight_dict == {"beat up", "fight", "pick a fight with", "battle"}

\* the set the two loops of calculateactiontype iterate over
verb_phrases ==
  load_game_dict \cup examine_dict \cup tp_to_dict \cup enter_dict \cup leave_dict
    \cup goto_dict \cup take_object_dict \cup fight_dict

(***************************************************************************)
(* Iteration orders of the verb-phrase set.  Python does not define the    *)
(* order in which a set is iterated; both loops of calculateactiontype     *)
(* build the same set and walk it in the same order, one of VerbOrders.    *)
(***************************************************************************)
OrderListed ==
  <<"load game", "load", "examine", "x", "inspect", "describe", "check", "tp to", "tp",
    "enter", "go inside", "go in", "leave", "exit", "go to", "go", "take", "grab",
    "snatch", "pick up", "beat up", "fight", "pick a fight with", "battle">>

Reverse(q) == [i \in 1..Len(q) |-> q[Len(q) + 1 - i]]

VerbOrders == {OrderListed, Reverse(OrderListed)}

(***************************************************************************)
(* calculateactiontype                                                     *)
(***************************************************************************)
\* input(">").lower() at a prompt inside a handler: the next line of the
\* player's answers (typed in lower case); starved marks a prompt that no
\* line is left for.
AskRaw(c, prompt) ==
  IF c.inq = <<>>
    THEN [c EXCEPT !.out = Append(@, prompt), !.starved = TRUE]
    ELSE [c EXCEPT !.out = Append(@, prompt), !.action = Head(c.inq),
                   !.inq = Tail(@), !.prompts = @ + 1]

\* action = input(">").lower(); action = action.strip()
Ask(c, prompt) == [AskRaw(c, prompt) EXCEPT !.action = Strip(@)]

\* body of the first loop for one item: a verb phrase found anywhere in the
\* line, followed by a space or the end, is cut out and counted
CountItem(cnt, item) ==
  LET a2 == cnt.action2
      index == Find(a2, item)
  IN  IF index # -1
         /\ Sl(a2, index + Len(item), index + Len(item) + 1) \in space_after_action_dict
        THEN [action2 |-> Sl(a2, 0, index) \o From(a2, index + Len(item) + 1),
              amountofactions |-> cnt.amountofactions + 1]
        ELSE cnt

\* first loop, over the items lo..hi of the order: those of the first half,
\* then those of the second half; nothing is found in an empty line
RECURSIVE CountActions(_, _, _, _)
CountActions(ord, lo, hi, cnt) ==
  IF cnt.action2 = "" THEN cnt
  ELSE IF lo = hi THEN CountItem(cnt, ord[lo])
  ELSE CountActions(ord, (lo + hi) \div 2 + 1, hi,
                    CountActions(ord, lo, (lo + hi) \div 2, cnt))

RepromptLine(item) ==
  IF item \in load_game_dict THEN "Enter save game data to load save:"
  ELSE IF item \in examine_dict THEN "What do you want to examine?"
  ELSE IF item \in tp_to_dict THEN "Where do you want to teleport to?"
  ELSE IF item \in goto_dict THEN "Where would you like to " \o item \o "?"
  ELSE "What do you want to " \o item \o "?"

\* every argument of go taken for a place to go to
GoKind_goto(a) == "go to"

\* the action type of go and go to, by the argument that is left
GoKind(a) ==
  IF a \in nesw_dict THEN "move"
  ELSE IF a \in left_dict THEN "left"
  ELSE IF a \in right_dict THEN "right"
  ELSE "go to"

\* body of the second loop for one item that matched at position 0
ClassifyItem(c, item, atdoor) ==
  LET c1 == IF item = "go"
               /\ (Find(c.action, "go inside") = 0 \/ Find(c.action, "go in") = 0
                   \/ Find(c.action, "go to") = 0)
              THEN c
              ELSE [c EXCEPT !.action = Strip(From(c.action, Len(item) + 1))]
      c2 == IF c1.action = "" /\ item \notin (leave_dict \cup enter_dict)
              THEN Ask(c1, RepromptLine(item))
            ELSE IF c1.action = "" /\ item \in enter_dict /\ ~atdoor
              THEN Ask(c1, "What would you like to " \o item \o "?")
            ELSE c1
  IN  IF item \in load_game_dict THEN [c2 EXCEPT !.actiontype = {"load", "save"}]
      ELSE IF item \in examine_dict THEN [c2 EXCEPT !.actiontype = {"examine"}]
      ELSE IF item \in tp_to_dict THEN [c2 EXCEPT !.actiontype = {"teleport"}]
      ELSE IF item \in enter_dict THEN [c2 EXCEPT !.actiontype = {"enter"}]
      ELSE IF item \in leave_dict THEN [c2 EXCEPT !.actiontype = {"leave"}]
      ELSE IF item \in goto_dict THEN [c2 EXCEPT !.actiontype = {GoKind(c2.action)}]
      ELSE IF item \in fight_dict THEN [c2 EXCEPT !.actiontype = {"fight"}, !.action2 = item]
      ELSE [c2 EXCEPT !.actiontype = {"take"}, !.action2 = item]

\* second loop, over the items lo..hi of the order (first half, then second
\* half): strips the verb phrase at position 0 and sets the action type; it
\* ends at a prompt that no line is left for
RECURSIVE StripVerbs(_, _, _, _, _)
StripVerbs(ord, lo, hi, c, atdoor) ==
  IF c.starved THEN c
  ELSE IF lo = hi
    THEN IF StartsWord(c.action, ord[lo]) THEN ClassifyItem(c, ord[lo], atdoor) ELSE c
  ELSE StripVerbs(ord, (lo + hi) \div 2 + 1, hi,
                  StripVerbs(ord, lo, (lo + hi) \div 2, c, atdoor), atdoor)

\* the message printed without ending the turn
TooMany_open(c, cnt) ==
  [c EXCEPT !.action2 = cnt.action2, !.out = Append(@, "You typed to many actions.")]

\* if amountofactions > 1: print("You typed to many actions."); done = 1; return
TooMany(c, cnt) ==
  [c EXCEPT !.action2 = cnt.action2, !.done = 1,
            !.out = Append(@, "You typed to many actions.")]

\* c.action is the line just read; atdoor is
\* part == "cabin_front" or part == "simpsons_house_front"
calculateactiontype(c0, ord, atdoor) ==
  LET c == [c0 EXCEPT !.action = Strip(c0.action)]
      a == c.action
      cnt == CountActions(ord, 1, Len(ord), [action2 |-> a, amountofactions |-> 0])
  IN  IF a \in look_around_dict THEN [c EXCEPT !.actiontype = {"look around"}]
      ELSE IF a = "print d" \/ a = "print description" THEN [c EXCEPT !.actiontype = {"printd"}]
      ELSE IF a = "settings" \/ a = "list settings" THEN [c EXCEPT !.actiontype = {"settings"}]
      ELSE IF a \in save_game_dict THEN [c EXCEPT !.actiontype = {"save"}]
      ELSE IF a \in nesw_dict THEN [c EXCEPT !.actiontype = {"move"}]
      ELSE IF a \in left_dict THEN [c EXCEPT !.actiontype = {"left"}]
      ELSE IF a \in right_dict THEN [c EXCEPT !.actiontype = {"right"}]
      ELSE IF a \in go_back_dict THEN [c EXCEPT !.actiontype = {"go back"}]
      ELSE IF cnt.amountofactions > 1 THEN TooMany(c, cnt)
      ELSE StripVerbs(ord, 1, Len(ord), [c EXCEPT !.action2 = cnt.action2], atdoor)

(***************************************************************************)
(* World state.  The module-level globals of the program, one variable     *)
(* each; a handler is an operator from a record of them to a record.       *)
(***************************************************************************)
VARIABLES
  pc,                \* "top": at the head of the while loop; "read": blocked in
                     \* input(">") of the main loop; "crashed": uncaught exception
  part, generalpart, previouspart, placesdiscovered,
  inventory, questlist, lockeddoors, changableobjects, beento,
  enemiesalive, npc_stats, healthpoints, attackpoints, defencepoints,
  paratype, developermode, description, printd,
  yesornotype, yesornoaction,
  dialogpart, indialog, choosedialog, dialogschosen,
  action, action2, actiontype, done,
  out,               \* lines printed by the last step
  acted,             \* handlers that printed or changed the world in the last step,
                     \* and "fallback" for the message of the unclaimed command
  typed,             \* the line the last step read at the main prompt ("" if none)
  lines,             \* number of lines the last step read from the player
  savefile,          \* the save string the player copied from the last save
  savedstate,        \* the values of the saved fields when that string was printed
  turns              \* number of command lines read so far

wvars ==
  <<part, generalpart, previouspart, placesdiscovered, inventory, questlist, lockeddoors,
    changableobjects, beento, enemiesalive, npc_stats, healthpoints, attackpoints,
    defencepoints, paratype, developermode, description, printd, yesornotype,
    yesornoaction, dialogpart, indialog, choosedialog, dialogschosen>>

vars ==
  <<pc, wvars, action, action2, actiontype, done, out, acted, typed, lines, savefile,
    savedstate, turns>>

\* the globals as one record, with the bookkeeping of the step
Cur ==
  [part |-> part, generalpart |-> generalpart, previouspart |-> previouspart,
   placesdiscovered |-> placesdiscovered, inventory |-> inventory, questlist |-> questlist,
   lockeddoors |-> lockeddoors, changableobjects |-> changableobjects, beento |-> beento,
   enemiesalive |-> enemiesalive, npc_stats |-> npc_stats, healthpoints |-> healthpoints,
   attackpoints |-> attackpoints, defencepoints |-> defencepoints,
   paratype |-> paratype, developermode |-> developermode, description |-> description,
   printd |-> printd, yesornotype |-> yesornotype, yesornoaction |-> yesornoaction,
   dialogpart |-> dialogpart, indialog |-> indialog, choosedialog |-> choosedialog,
   dialogschosen |-> dialogschosen,
   action |-> "", action2 |-> "", actiontype |-> {}, done |-> 0,
   isfloornumberaction |-> 0, isjustfloornumberaction |-> 0,
   specificaction |-> 0, isjustspecificaction |-> 0,
   itemtouse |-> "", useitemonaction |-> "", itemschecked |-> 0, ret |-> FALSE,
   floororder |-> <<>>,
   out |-> <<>>, inq |-> <<>>, starved |-> FALSE, prompts |-> 0,
   acted |-> <<>>, crashed |-> FALSE, saved |-> "", savedat |-> <<>>]

\* the part of the record that is world state
World(r) ==
  <<r.part, r.generalpart, r.previouspart, r.placesdiscovered, r.inventory, r.questlist,
    r.lockeddoors, r.changableobjects, r.beento, r.enemiesalive, r.npc_stats,
    r.healthpoints, r.attackpoints, r.defencepoints, r.paratype, r.developermode,
    r.description, r.printd, r.yesornotype, r.yesornoaction, r.dialogpart, r.indialog,
    r.choosedialog, r.dialogschosen>>

Commit(r) ==
  /\ part' = r.part /\ generalpart' = r.generalpart /\ previouspart' = r.previouspart
  /\ placesdiscovered' = r.placesdiscovered /\ inventory' = r.inventory
  /\ questlist' = r.questlist /\ lockeddoors' = r.lockeddoors
  /\ changableobjects' = r.changableobjects /\ beento' = r.beento
  /\ enemiesalive' = r.enemiesalive /\ npc_stats' = r.npc_stats
  /\ healthpoints' = r.healthpoints /\ attackpoints' = r.attackpoints
  /\ defencepoints' = r.defencepoints /\ paratype' = r.paratype
  /\ developermode' = r.developermode /\ description' = r.description
  /\ printd' = r.printd /\ yesornotype' = r.yesornotype
  /\ yesornoaction' = r.yesornoaction /\ dialogpart' = r.dialogpart
  /\ indialog' = r.indialog /\ choosedialog' = r.choosedialog
  /\ dialogschosen' = r.dialogschosen
  /\ action' = r.action /\ action2' = r.action2 /\ actiontype' = r.actiontype
  /\ done' = r.done /\ out' = r.out /\ acted' = r.acted

Say(r, line) == [r EXCEPT !.out = Append(@, line)]

\* "if done == 0: handler()" of the main loop, h being what the handler makes
\* of r; a handler has acted when it printed something or changed the world
Call(r, name, h) ==
  IF r.done # 0 \/ r.crashed \/ r.starved THEN r
  ELSE IF h.out # r.out \/ World(h) # World(r)
    THEN [h EXCEPT !.acted = Append(@, name)]
    ELSE h

(***************************************************************************)
(* str(int) and int(str)                                                   *)
(***************************************************************************)
Digits == <<"0", "1", "2", "3", "4", "5", "6", "7", "8", "9">>

\* str(n) for n >= 0
RECURSIVE StrOf(_)
StrOf(n) == IF n < 10 THEN Digits[n + 1] ELSE StrOf(n \div 10) \o Digits[(n % 10) + 1]

DigitOf(ch) == (CHOOSE i \in 1..10 : Digits[i] = ch) - 1

IsNumber(s) == Len(s) > 0 /\ \A i \in 1..Len(s) : \E d \in 1..10 : Digits[d] = SubSeq(s, i, i)

\* int(s) for a string of decimal digits (anything else raises ValueError)
RECURSIVE IntOf(_)
IntOf(s) ==
  IF Len(s) = 1 THEN DigitOf(s)
  ELSE 10 * IntOf(Sl(s, 0, Len(s) - 1)) + DigitOf(SubSeq(s, Len(s), Len(s)))

(***************************************************************************)
(* Head of the main loop: gobackto, printdescription, askyesorno, dialog.  *)
(***************************************************************************)
\* gobackto comparing the location with the oldest entry of the history
gobackto_first(r) ==
  IF r.part # r.previouspart[1]
    THEN [r EXCEPT !.previouspart = Append(@, r.part)]
    ELSE r

gobackto(r) ==
  IF r.part # r.previouspart[Len(r.previouspart)]
    THEN [r EXCEPT !.previouspart = Append(@, r.part)]
    ELSE r

\* The prose is not modelled: one line stands for the heading and paragraphs.
\* The first-visit flags are set as the code sets them while printing.
printdescription(r) ==
  IF r.description > 0
    THEN LET firsts == IF r.paratype = 1 THEN {"grassy_field", "cavepart1", "cavepart2"}
                       ELSE IF r.paratype = 2 THEN {"grassy_field", "cavepart1"}
                       ELSE {}
             r1 == IF r.description = 1 /\ r.part \in firsts /\ r.beento[r.part] = 0
                     THEN [r EXCEPT !.beento[r.part] = 1]
                     ELSE r
         IN  [Say(r1, "[description] " \o r.part) EXCEPT !.description = 0, !.done = 1]
    ELSE r

askyesorno(r) ==
  IF r.part = "mineshaft_entrance"
    THEN [Say(r, "Do you go in?") EXCEPT !.yesornoaction = 1]
  ELSE IF r.part = "cavepart2_r1" /\ r.yesornotype = "fight"
    THEN [Say(r, "Are you sure you want to do this?") EXCEPT !.yesornoaction = 1]
  ELSE r

\* the choices of the attic scene that were not chosen before
OfferChoices(r) ==
  LET texts == <<"1: Grab portal gun and run", "2: Spit in Rick's face",
                 "3: Take boy as hostage", "4: Ask if you can join them">>
      chosen == {r.dialogschosen[i] : i \in 1..Len(r.dialogschosen)}
      open == SelectSeq(<<1, 2, 3, 4>>, LAMBDA n : n \notin chosen)
  IN  [r EXCEPT !.out = @ \o [i \in 1..Len(open) |-> texts[open[i]]]]

dialogchoices(r) ==
  [(IF r.dialogpart = "rick_and_morty_apear_in_attic"
      THEN OfferChoices(Say(r, "What do you choose to do?"))
      ELSE r)
     EXCEPT !.choosedialog = 1, !.done = 1]

dialog(r) ==
  IF r.indialog = 1
    THEN LET r1 == IF r.dialogpart = "rick_and_morty_apear_in_attic"
                     THEN Say(r, "[scene] rick_and_morty_apear_in_attic")
                     ELSE r
         IN  dialogchoices([r1 EXCEPT !.indialog = 0, !.dialogschosen = <<>>])
    ELSE r

\* a choice never counted as taken
AlreadyChosen_never(r, n) == FALSE

\* n in dialogschosen
AlreadyChosen(r, n) == \E i \in 1..Len(r.dialogschosen) : r.dialogschosen[i] = n

chooseadialog(r) ==
  IF r.choosedialog = 1
    THEN LET pick(n, line) ==
               dialogchoices([Say(r, line) EXCEPT !.dialogschosen = Append(@, n)])
             r1 == IF r.dialogpart = "rick_and_morty_apear_in_attic"
                     THEN IF r.action = "1" /\ ~AlreadyChosen(r, 1) THEN pick(1, "")
                          ELSE IF r.action = "2" /\ ~AlreadyChosen(r, 2)
                            THEN pick(2, "You spit directly into Rick's face for absolutely no reason.")
                          ELSE IF r.action = "3" /\ ~AlreadyChosen(r, 3) THEN pick(3, "")
                          ELSE IF r.action = "4"
                            THEN [Say(r, "[scene] rick offers the portal")
                                    EXCEPT !.part = "simpsons_house_front", !.description = 1]
                          ELSE Say(r, "That's not a valid option.")
                     ELSE r
         IN  [r1 EXCEPT !.done = 1]
    ELSE r

printdescriptionaction(r) ==
  IF r.action = "print d" THEN [r EXCEPT !.printd = 1, !.description = 1, !.done = 1] ELSE r

\* settings listing the settings without claiming the command
settings_open(r) ==
  LET para(x) == " - paratype = " \o StrOf(x.paratype) \o " (default: 1) [1,2]"
      dev(x) == " - developer mode = " \o StrOf(x.developermode) \o " (default: 0) [0,1]"
      set1(x) == [Say(x, para(x)) EXCEPT !.done = 1]
      set2(x) == [Say(x, dev(x)) EXCEPT !.done = 1]
  IN  IF r.action = "settings" \/ r.action = "list settings"
        THEN Say(Say(Say(r, "Settings:"), para(r)), dev(r))
      ELSE IF r.action = "paratype = 1" THEN set1([r EXCEPT !.paratype = 1])
      ELSE IF r.action = "paratype = 2" THEN set1([r EXCEPT !.paratype = 2])
      ELSE IF r.action = "developer mode = 0" THEN set2([r EXCEPT !.developermode = 0])
      ELSE IF r.action = "developer mode = 1" THEN set2([r EXCEPT !.developermode = 1])
      ELSE r

settings(r) ==
  LET para(x) == " - paratype = " \o StrOf(x.paratype) \o " (default: 1) [1,2]"
      dev(x) == " - developer mode = " \o StrOf(x.developermode) \o " (default: 0) [0,1]"
      set1(x) == [Say(x, para(x)) EXCEPT !.done = 1]
      set2(x) == [Say(x, dev(x)) EXCEPT !.done = 1]
  IN  IF r.action = "settings" \/ r.action = "list settings"
        THEN [Say(Say(Say(r, "Settings:"), para(r)), dev(r)) EXCEPT !.done = 1]
      ELSE IF r.action = "paratype = 1" THEN set1([r EXCEPT !.paratype = 1])
      ELSE IF r.action = "paratype = 2" THEN set1([r EXCEPT !.paratype = 2])
      ELSE IF r.action = "developer mode = 0" THEN set2([r EXCEPT !.developermode = 0])
      ELSE IF r.action = "developer mode = 1" THEN set2([r EXCEPT !.developermode = 1])
      ELSE r

(***************************************************************************)
(* save and load                                                           *)
(***************************************************************************)
\* Python iterates a dict in insertion order: the order of the literals that
\* create the dicts, which load rebuilds from the order in the save string.
InventoryKeys ==
  <<"cabin_key", "cabin_upstairs_bedroom_key", "water_bucket", "bucket", "unlit_torch",
    "lit_torch", "ladder", "portal_gun">>
LockedDoorKeys == <<"cabin_front_door", "cabin_attic_hatch">>
ChangableObjectKeys ==
  <<"lit_cabin_fireplace", "cabin_upstairs_bedroom_key_on_table", "ladder_on_side_of_cabin",
    "cabin_attic_ladder_placed">>
BeentoKeys == <<"grassy_field", "cavepart1", "cavepart2">>
EnemiesAliveKeys == <<"cavepart2_r1_imp">>
NpcStatsKeys ==
  <<"health_cavepart2_r1_imp", "attack_cavepart2_r1_imp", "defence_cavepart2_r1_imp">>

\* The order in which save walks the set placesdiscovered is not defined by
\* Python; load only adds the words to a set, so one order stands for all.
PlaceOrder ==
  <<"base_universe", "grassy_field", "forestpart1", "mineshaft_entrance", "cavepart1",
    "cavepart2", "cavepart2_l1", "cavepart2_r1", "cabin_front", "cabin_living_room",
    "cabin_1st_floor_bathroom", "cabin_1st_floor_bedroom",
    "cabin_2nd_floor_bedroom_connecter", "cabin_attic", "simpsons_house",
    "simpsons_house_front", "simpsons_house_living_room", "springfield_school",
    "springfield_school_front", "kwik_e_mart", "kwik_e_mart_front">>

\* q[lo] + ... + q[hi] for a sequence of strings
RECURSIVE Concat(_, _, _)
Concat(q, lo, hi) ==
  IF lo > hi THEN ""
  ELSE IF lo = hi THEN q[lo]
  ELSE Concat(q, lo, (lo + hi) \div 2) \o Concat(q, (lo + hi) \div 2 + 1, hi)

\* "k1:v1 k2:v2 ... " as the loops of save build it
DictBlob(d, keys) ==
  Concat([i \in 1..Len(keys) |->
            IF keys[i] \in DOMAIN d THEN keys[i] \o ":" \o StrOf(d[keys[i]]) \o " " ELSE ""],
         1, Len(keys))

SetBlob(set) ==
  Concat([i \in 1..Len(PlaceOrder) |->
            IF PlaceOrder[i] \in set THEN PlaceOrder[i] \o " " ELSE ""],
         1, Len(PlaceOrder))

\* str(savefile): the dict literal whose keys are the blobs and values 0..8
SaveString(r) ==
  LET savesettings == " " \o StrOf(r.paratype) \o ":1 " \o StrOf(r.developermode) \o ":2 "
      blobs == <<savesettings, r.part, " " \o SetBlob(r.placesdiscovered),
                 " " \o DictBlob(r.inventory, InventoryKeys),
                 " " \o DictBlob(r.lockeddoors, LockedDoorKeys),
                 " " \o DictBlob(r.changableobjects, ChangableObjectKeys),
                 " " \o DictBlob(r.beento, BeentoKeys),
                 " " \o DictBlob(r.enemiesalive, EnemiesAliveKeys),
                 " " \o DictBlob(r.npc_stats, NpcStatsKeys)>>
      entries == [i \in 1..9 |-> "'" \o blobs[i] \o "': " \o StrOf(i - 1)
                                    \o (IF i < 9 THEN ", " ELSE "")]
  IN  "{" \o Concat(entries, 1, 9) \o "}"

\* the fields that save writes into the save string
SavedFields(r) ==
  [paratype |-> r.paratype, developermode |-> r.developermode, part |-> r.part,
   placesdiscovered |-> r.placesdiscovered, inventory |-> r.inventory,
   lockeddoors |-> r.lockeddoors, changableobjects |-> r.changableobjects,
   beento |-> r.beento, enemiesalive |-> r.enemiesalive, npc_stats |-> r.npc_stats]

save(r) ==
  IF "save" \in r.actiontype
    THEN LET text == SaveString(r)
             r1 == [r EXCEPT !.out = @ \o <<"", "Type:", "", "load " \o text, "">>]
             r2 == IF "load" \in r.actiontype
                     THEN [Say(r1, "In order to load your game if save data is corupt.")
                             EXCEPT !.actiontype = @ \ {"save"}]
                     ELSE [Say(r1, "In order to load your game.") EXCEPT !.done = 1]
         IN  [Say(r2, "You saved the game.") EXCEPT !.saved = text, !.savedat = SavedFields(r)]
    ELSE r

\* s[a:b] with Python's treatment of negative and out-of-range indices
PyIndex(s, i) == IF i < 0 THEN (IF Len(s) + i < 0 THEN 0 ELSE Len(s) + i) ELSE Min2(i, Len(s))
PySl(s, a, b) == SubSeq(s, PyIndex(s, a) + 1, PyIndex(s, b))

\* s.split(): the maximal runs of characters other than blanks, in order
Split(s) ==
  LET n == Len(s)
      blank(i) == SubSeq(s, i, i) = " "
      starts == {i \in 1..n : ~blank(i) /\ (i = 1 \/ blank(i - 1))}
      ends == {j \in 1..n : ~blank(j) /\ (j = n \/ blank(j + 1))}
      nth(set, k) == CHOOSE i \in set : Cardinality({j \in set : j <= i}) = k
  IN  [k \in 1..Cardinality(starts) |-> SubSeq(s, nth(starts, k), nth(ends, k))]

\* a dict read from the save string with every value taken for 0
ParseDict_zero(blob) ==
  LET words == Split(blob)
      key(w) == PySl(w, 0, Find(w, ":"))
  IN  [ok |-> TRUE, d |-> [k \in {key(words[i]) : i \in 1..Len(words)} |-> 0]]

\* d = {}; for word in blob.split(): d[word[:index3]] = int(word[index3 + 1:])
\* ok is FALSE when an int() raises ValueError; d then holds the entries of
\* the words before that one
ParseDict(blob) ==
  LET words == Split(blob)
      key(w) == PySl(w, 0, Find(w, ":"))
      val(w) == PySl(w, Find(w, ":") + 1, Len(w))
      bad == {i \in 1..Len(words) : ~IsNumber(val(words[i]))}
      n == IF bad = {} THEN Len(words) ELSE (CHOOSE i \in bad : \A j \in bad : i <= j) - 1
      keys == {key(words[i]) : i \in 1..n}
      last(k) == CHOOSE i \in 1..n : key(words[i]) = k /\ \A j \in (i + 1)..n : key(words[j]) # k
  IN  [ok |-> bad = {}, d |-> [k \in keys |-> IntOf(val(words[last(k)]))]]

\* the location read one character too far into the save string
LoadedPart_short(a) == PySl(a, Find(a, "': 0") + 8, Find(a, "': 1"))

\* part = action[index2 + 7:index]
LoadedPart(a) == PySl(a, Find(a, "': 0") + 7, Find(a, "': 1"))

\* the discovered locations replaced by those of the save string
LoadPlaces_replace(r, places) ==
  [r EXCEPT !.placesdiscovered = {places[k] : k \in 1..Len(places)}]

\* for index, word in enumerate(action2.split()): placesdiscovered.add(word)
LoadPlaces(r, places) ==
  [r EXCEPT !.placesdiscovered = @ \cup {places[k] : k \in 1..Len(places)}]

\* Each step of load is one assignment group of the code; an int() that
\* raises ValueError ends the process with the assignments made so far.
\* enemiesalive and npc_stats are not declared global in load: the two dicts
\* it builds from the string are locals, and the globals keep their values.
load(r) ==
  IF "load" \in r.actiontype
    THEN
      LET a == r.action
          r0 == Say(r, "")
          i0 == Find(a, "': 0")
          i1 == Find(a, "': 1")
          i2 == Find(a, "': 2")
          i3 == Find(a, "': 3")
          i4 == Find(a, "': 4")
          i5 == Find(a, "': 5")
          i6 == Find(a, "': 6")
          i7 == Find(a, "': 7")
          i8 == Find(a, "': 8")
          sett == PySl(a, 3, i0)
          ix1 == Find(sett, ":1 ")
          para == PySl(sett, 0, ix1)
          ix2 == Find(sett, ":2 ")
          dev == PySl(sett, ix1 + 3, ix2)
          newpart == LoadedPart(a)
          places == Split(PySl(a, i1 + 8, i2))
          inv == ParseDict(PySl(a, i2 + 8, i3))
          doors == ParseDict(PySl(a, i3 + 8, i4))
          objs == ParseDict(PySl(a, i4 + 8, i5))
          been == ParseDict(PySl(a, i5 + 8, i6))
          foes == ParseDict(PySl(a, i6 + 8, i7))
          npcs == ParseDict(PySl(a, i7 + 8, i8))
          crash(x) == [x EXCEPT !.crashed = TRUE]
          s1 == [r0 EXCEPT !.paratype = IntOf(para)]
          s2 == [s1 EXCEPT !.developermode = IntOf(dev)]
          s3 == LoadPlaces([s2 EXCEPT !.part = newpart], places)
          s4 == [s3 EXCEPT !.inventory = inv.d]
          s5 == [s4 EXCEPT !.lockeddoors = doors.d]
          s6 == [s5 EXCEPT !.changableobjects = objs.d]
          s7 == [s6 EXCEPT !.beento = been.d]
      IN  IF Sl(a, 0, 1) = "{" /\ PySl(a, -1, Len(a)) = "}"
            THEN IF ~IsNumber(para) THEN crash(r0)
                 ELSE IF ~IsNumber(dev) THEN crash(s1)
                 ELSE IF ~inv.ok THEN crash(s4)
                 ELSE IF ~doors.ok THEN crash(s5)
                 ELSE IF ~objs.ok THEN crash(s6)
                 ELSE IF ~been.ok THEN crash(s7)
                 ELSE IF ~foes.ok THEN crash(s7)
                 ELSE IF ~npcs.ok THEN crash(s7)
                 ELSE [Say(s7, ">You loaded the game from your savefile.")
                         EXCEPT !.description = 1, !.done = 1]
            ELSE r0
    ELSE r

(***************************************************************************)
(* yesorno, examine, tp                                                    *)
(***************************************************************************)
yes_dict == {"yes", "yas", "ye", "y"}
no_dict == {"no", "nah"}
yes_no_dict == yes_dict \cup no_dict \cup {"n"}

\* the combat resolution hook: a stub that only prints
action_of_fight(r) ==
  IF r.part = "cavepart2" /\ r.enemiesalive["cavepart2_r1_imp"] = 1 THEN Say(r, "fude") ELSE r

\* the answer "n" taken for a no without asking
MeantNoOrNorth_no(r) == IF r.action = "n" THEN [r EXCEPT !.action = "no"] ELSE r

\* if action == "n": print('Did you mean no or north?'); action = input(">").lower()
MeantNoOrNorth(r) == IF r.action = "n" THEN AskRaw(r, "Did you mean no or north?") ELSE r

yesorno(r) ==
  IF r.action \in yes_no_dict /\ r.yesornoaction = 1
    THEN
      LET r1 == IF r.action \in yes_dict
                  THEN IF r.part = "mineshaft_entrance"
                         THEN [r EXCEPT !.part = "cavepart1", !.description = 1, !.done = 1]
                       ELSE IF r.part = "cavepart2_r1"
                         THEN [action_of_fight([r EXCEPT !.yesornotype = ""]) EXCEPT !.done = 1]
                       ELSE r
                ELSE \* action == "n" or action in no_dict
                  LET q == MeantNoOrNorth(r)
                  IN  IF q.starved THEN q
                      ELSE IF q.action \in no_dict
                        THEN IF q.part = "mineshaft_entrance"
                               THEN [Say(q, "You decide to wait a little bit before entering the cave.")
                                       EXCEPT !.part = "grassy_field", !.description = 1, !.done = 1]
                             ELSE IF q.part = "cavepart2_r1"
                               THEN [Say(q, "You decide to not beat up the helpless imp for now however he is still blocking the right path.")
                                       EXCEPT !.yesornotype = "", !.description = 1, !.done = 1]
                             ELSE [q EXCEPT !.done = 1]
                      ELSE Say(q, "We still don't know if you mean no or north.")
      IN  [r1 EXCEPT !.yesornoaction = 0, !.done = 1]
    ELSE r

examine(r) ==
  IF "examine" \in r.actiontype
    THEN
      LET a == r.action
          unknown == "We don't know what you are trying to examine."
          line ==
            IF r.part = "grassy_field"
              THEN IF a \in {"grass", "field", "brush"}
                     THEN "There seems to be purple particles emanating from the grass."
                   ELSE IF a \in mineshaft_dict THEN "You would have to get closer to see it."
                   ELSE unknown
            ELSE IF r.part = "cabin_living_room"
              THEN IF a \in fire_place_dict
                     THEN "It seems odd that fireplace was lit before you got here."
                   ELSE IF a \in {"table", "dining table"} THEN "You notice a key on the table."
                   ELSE unknown
            ELSE IF r.part = "cabin_1st_floor_bathroom"
              THEN IF a = "shower"
                     THEN "The shower curtains appear to be closed. You can see a silhouette of a person behind the curtain."
                   ELSE unknown
            ELSE IF r.part = "cavepart1"
              THEN IF a \in {"light", "feint light", "glow", "feint glow", "glowing light"}
                     THEN "The feint white light continues to grow brighter as you continue down the tunnel."
                   ELSE IF a \in {"sulfur", "smell of sulfur", "smell sulfur", "sulfur smell"}
                     THEN "There is a smell of sulfur in the air coming from down the tunnel."
                   ELSE unknown
            ELSE IF r.part = "cavepart2"
              THEN IF a \in {"torch", "flame", "fire", "light"}
                     THEN "The wood burning torch seems to be perfectly block shaped and the flame is red with tiny white sparks flying off and little particles of smoke."
                   ELSE unknown
            ELSE "There is nothing to examine here."
          \* the two lines that are printed under "if paratype == 1 / == 2" only
          silent == /\ r.paratype \notin {1, 2}
                    /\ \/ r.part = "cavepart1"
                          /\ a \in {"light", "feint light", "glow", "feint glow", "glowing light"}
                       \/ r.part = "cavepart2" /\ a \in {"torch", "flame", "fire", "light"}
      IN  [(IF silent THEN r ELSE Say(r, line)) EXCEPT !.done = 1]
    ELSE r

tp(r) ==
  IF r.inventory["portal_gun"] = 1 /\ "teleport" \in r.actiontype
    THEN
      LET a == r.action
          r1 == IF a \in grassy_field_dict
                  THEN [r EXCEPT !.part = "grassy_field", !.description = 1] ELSE r
          r2 == IF a \in cabin_dict
                  THEN [r1 EXCEPT !.part = "cabin_front", !.description = 1] ELSE r1
          r3 == IF a = "attic"
                  THEN [r2 EXCEPT !.part = "cabin_attic", !.description = 1] ELSE r2
          r4 == IF a = "cave"
                  THEN [r3 EXCEPT !.part = "mineshaft_entrance", !.description = 1] ELSE r3
          r5 == IF a = "simpsons"
                  THEN [r4 EXCEPT !.generalpart = "simpsons_house",
                                  !.part = "simpsons_house_front", !.description = 1]
                  ELSE r4
      IN  [r5 EXCEPT !.done = 1]
    ELSE r

(***************************************************************************)
(* movement: enter, move, leftright, leave, goto, goback                   *)
(***************************************************************************)
FloorListed ==
  <<"1st floor", "1stfloor", "floor 1", "first floor", "2nd floor", "2ndfloor", "floor 2",
    "second floor", "3rd floor", "3rdfloor", "floor 3", "third floor">>

\* body of the loop over the floor phrases for one phrase
StripFloor(r, item) ==
  LET at == Find(r.action, item)
      rest == Sl(r.action, 0, at) \o From(r.action, at + Len(item) + 1)
  IN  IF at # -1
        THEN [r EXCEPT !.isfloornumberaction =
                         IF item \in floor1_dict THEN 1
                         ELSE IF item \in floor2_dict THEN 2 ELSE 3,
                       !.action = rest,
                       !.isjustfloornumberaction = IF rest = "" THEN 1 ELSE @,
                       !.done = @ + 1]
        ELSE r

\* the loop over the floor phrases at the head of enter and goto, over the
\* phrases lo..hi of the order (first half, then second half); it counts the
\* phrases it finds in done, and finds none in an empty argument
RECURSIVE StripFloors(_, _, _)
StripFloors(r, lo, hi) ==
  IF r.action = "" THEN r
  ELSE IF lo = hi THEN StripFloor(r, r.floororder[lo])
  ELSE StripFloors(StripFloors(r, lo, (lo + hi) \div 2), (lo + hi) \div 2 + 1, hi)

\* the loop over cabin_dict with its break: at most one phrase of cabin_dict
\* starts the argument, so the order of the set does not matter
StripCabin(r) ==
  LET hit == {item \in cabin_dict : StartsWord(r.action, item)}
  IN  IF hit = {} THEN r
      ELSE LET item == CHOOSE x \in hit : TRUE
               rest == From(r.action, Len(item) + 1)
           IN  [r EXCEPT !.specificaction = 1, !.action = rest,
                         !.isjustspecificaction = IF rest = "" THEN 1 ELSE @]

\* the cabin front door opened by whoever holds the key
EnterDoor_unlocking(c) ==
  IF c.inventory["cabin_key"] = 1 /\ c.lockeddoors["cabin_front_door"] = 1
    THEN [c EXCEPT !.lockeddoors["cabin_front_door"] = 0, !.inventory["cabin_key"] = 0,
                   !.part = "cabin_living_room", !.description = 1]
  ELSE IF c.inventory["cabin_key"] = 0 /\ c.lockeddoors["cabin_front_door"] = 1
    THEN Say(c, "It seems to be locked. You will require a key to unlock the door.")
  ELSE IF c.lockeddoors["cabin_front_door"] = 0
    THEN [c EXCEPT !.part = "cabin_living_room", !.description = 1]
  ELSE c

\* the cabin front door reported without looking at the key
EnterDoor_keyless(c) ==
  IF c.lockeddoors["cabin_front_door"] = 1
    THEN Say(c, "It seems to be locked. You will require a key to unlock the door.")
  ELSE IF c.lockeddoors["cabin_front_door"] = 0
    THEN [c EXCEPT !.part = "cabin_living_room", !.description = 1]
  ELSE c

\* enter at cabin_front with the door as its target
EnterDoor(c) ==
  IF c.inventory["cabin_key"] = 1 /\ c.lockeddoors["cabin_front_door"] = 1
    THEN Say(c, "You will have to unlock the door first.")
  ELSE IF c.inventory["cabin_key"] = 0 /\ c.lockeddoors["cabin_front_door"] = 1
    THEN Say(c, "It seems to be locked. You will require a key to unlock the door.")
  ELSE IF c.lockeddoors["cabin_front_door"] = 0
    THEN [c EXCEPT !.part = "cabin_living_room", !.description = 1]
  ELSE c

enter(r) ==
  IF "enter" \in r.actiontype
    THEN
      LET at(c) ==
            LET a == c.action
                entererror == Say(c, "We dont know what your trying to enter.")
                go(p) == [c EXCEPT !.part = p, !.description = 1]
                r1 ==
                  IF c.part # "cabin_front" /\ c.part # "simpsons_house_front" /\ a = "building"
                    THEN Say(c, "We don't know what building your tring to enter.")
                  ELSE IF c.part = "cabin_front"
                    THEN IF a = "" \/ a = "building"
                            \/ (c.specificaction = 1 /\ c.isjustspecificaction = 1)
                           THEN EnterDoor(c)
                           ELSE entererror
                  ELSE IF c.part = "cabin_living_room"
                    THEN IF a \in bathroom_dict /\ c.isfloornumberaction < 2 /\ c.specificaction < 2
                           THEN go("cabin_1st_floor_bathroom")
                         ELSE IF a \in bedroom_dict /\ c.isfloornumberaction < 2
                                 /\ c.specificaction < 2
                           THEN go("cabin_1st_floor_bedroom")
                         ELSE entererror
                  ELSE IF c.part \in {"cabin_1st_floor_bathroom", "cabin_1st_floor_bedroom"}
                    THEN IF a \in living_room_dict /\ c.isfloornumberaction < 2
                            /\ c.specificaction < 2
                           THEN go("cabin_living_room")
                           ELSE entererror
                  ELSE IF c.specificaction = 1 THEN Say(c, "There is no cabin here.")
                  ELSE IF c.part = "simpsons_house_front"
                    THEN IF a \in living_room_dict
                           THEN [c EXCEPT !.part = "simpsons_house_living_room"] ELSE c
                  ELSE entererror
            IN  [r1 EXCEPT !.done = 1]
          floors(f) ==
            IF f.done > 1 THEN Say(f, "You typed to many floors.")
            ELSE at(StripCabin([f EXCEPT !.done = 0]))
      IN  floors(StripFloors(r, 1, Len(r.floororder)))
    ELSE r

\* the refusal printed without claiming the command
CantGo_open(x) == Say(x, "You cant go that way!")

\* print('You cant go that way!') with the done = 1 that follows it
CantGo(x) == [Say(x, "You cant go that way!") EXCEPT !.done = 1]

\* an east branch whose cave exits lead one location too far
MoveEast_far(r) ==
  IF r.part = "mineshaft_entrance"
    THEN [r EXCEPT !.part = "grassy_field", !.description = 1, !.done = 1]
  ELSE IF r.part = "cavepart1"
    THEN [r EXCEPT !.part = "grassy_field", !.description = 1, !.done = 1]
  ELSE IF r.part = "cavepart2"
    THEN [r EXCEPT !.part = "mineshaft_entrance", !.description = 1, !.done = 1]
  ELSE CantGo(r)

\* the east branch of move
MoveEast(r) ==
  IF r.part = "mineshaft_entrance"
    THEN [r EXCEPT !.part = "grassy_field", !.description = 1, !.done = 1]
  ELSE IF r.part = "cavepart1"
    THEN [r EXCEPT !.part = "mineshaft_entrance", !.description = 1, !.done = 1]
  ELSE IF r.part = "cavepart2"
    THEN [r EXCEPT !.part = "cavepart1", !.description = 1, !.done = 1]
  ELSE CantGo(r)

move(r) ==
  IF "move" \in r.actiontype
    THEN
      LET a == r.action
          cant(x) == CantGo(x)
          go(x, p) == [x EXCEPT !.part = p, !.description = 1, !.done = 1]
          r1 ==
            IF a \in north_dict
              THEN IF r.part = "grassy_field" THEN go(r, "forestpart1") ELSE cant(r)
            ELSE IF a \in east_dict THEN MoveEast(r)
            ELSE IF a \in south_dict
              THEN IF r.part = "forestpart1" THEN go(r, "grassy_field") ELSE cant(r)
            ELSE IF a \in west_dict
              THEN IF r.part = "grassy_field" THEN go(r, "mineshaft_entrance")
                   ELSE IF r.part = "mineshaft_entrance"
                     THEN [go(r, "cavepart1") EXCEPT !.yesornoaction = 0]
                   ELSE IF r.part = "cavepart1" THEN go(r, "cavepart2")
                   ELSE cant(r)
            ELSE r
          r2 == IF a \in northeast_dict THEN cant(r1) ELSE r1
          r3 == IF a \in southeast_dict
                  THEN IF r2.part = "grassy_field" THEN go(r2, "cabin_front") ELSE cant(r2)
                  ELSE r2
          r4 == IF a \in southwest_dict THEN cant(r3) ELSE r3
      IN  IF a \in northwest_dict
            THEN IF r4.part = "cabin_front" THEN go(r4, "grassy_field") ELSE cant(r4)
            ELSE r4
    ELSE r

leftright(r) ==
  IF "left" \in r.actiontype
    THEN IF r.part = "cavepart2"
           THEN [r EXCEPT !.part = "cavepart2_l1", !.description = 1, !.done = 1]
           ELSE [Say(r, "You cant go that way!") EXCEPT !.done = 1]
  ELSE IF "right" \in r.actiontype
    THEN IF r.part = "cavepart2"
           THEN [r EXCEPT !.part = "cavepart2_r1", !.description = 1, !.done = 1]
           ELSE [Say(r, "You cant go that way!") EXCEPT !.done = 1]
  ELSE r

\* leave with the cabin front door locking behind the player
leave_locking(r) ==
  IF "leave" \in r.actiontype
    THEN LET a == r.action
             go(p) == [r EXCEPT !.part = p, !.description = 1, !.done = 1]
         IN  IF r.part = "cabin_living_room"
                /\ (a \in living_room_dict \/ a \in cabin_dict \/ a = "")
               THEN [go("cabin_front") EXCEPT !.lockeddoors["cabin_front_door"] = 1]
             ELSE IF r.part = "cabin_1st_floor_bathroom" /\ (a \in bathroom_dict \/ a = "")
               THEN go("cabin_living_room")
             ELSE IF r.part = "cabin_1st_floor_bedroom" /\ (a \in bedroom_dict \/ a = "")
               THEN go("cabin_living_room")
             ELSE [Say(r, "We dont know what your trying to exit.") EXCEPT !.done = 1]
    ELSE r

leave(r) ==
  IF "leave" \in r.actiontype
    THEN LET a == r.action
             go(p) == [r EXCEPT !.part = p, !.description = 1, !.done = 1]
         IN  IF r.part = "cabin_living_room"
                /\ (a \in living_room_dict \/ a \in cabin_dict \/ a = "")
               THEN go("cabin_front")
             ELSE IF r.part = "cabin_1st_floor_bathroom" /\ (a \in bathroom_dict \/ a = "")
               THEN go("cabin_living_room")
             ELSE IF r.part = "cabin_1st_floor_bedroom" /\ (a \in bedroom_dict \/ a = "")
               THEN go("cabin_living_room")
             ELSE [Say(r, "We dont know what your trying to exit.") EXCEPT !.done = 1]
    ELSE r

\* goback dropping the last entry without moving to the entry before it
goback_stay(r) ==
  IF "go back" \in r.actiontype
    THEN IF Len(r.previouspart) > 1
           THEN [r EXCEPT !.previouspart = SubSeq(@, 1, Len(@) - 1),
                          !.description = 1, !.done = 1]
           ELSE [Say(r, "There is nothing to go back to.") EXCEPT !.done = 1]
    ELSE r

goback(r) ==
  IF "go back" \in r.actiontype
    THEN IF Len(r.previouspart) > 1
           THEN [r EXCEPT !.part = r.previouspart[Len(r.previouspart) - 1],
                          !.previouspart = SubSeq(@, 1, Len(@) - 1),
                          !.description = 1, !.done = 1]
           ELSE [Say(r, "There is nothing to go back to.") EXCEPT !.done = 1]
    ELSE r

gotoerror(r) ==
  IF r.action \in go_to_upstairs_dict THEN Say(r, "You can't go upstairs here.")
  ELSE IF r.action \in go_to_downstairs_dict THEN Say(r, "You can't go downstairs here.")
  ELSE Say(r, "We don't know where your trying to go to.")

\* The names kitchen_dict and cabin_attic are used in goto but defined nowhere
\* in the program: evaluating either raises NameError and ends the process.
goto(r) ==
  IF "go to" \in r.actiontype
    THEN
      LET at(c) ==
            LET a == c.action
                fl == c.isfloornumberaction
                go(p) == [c EXCEPT !.part = p, !.description = 1]
                gogeneral(g, p) == [c EXCEPT !.generalpart = g, !.part = p, !.description = 1]
                already == Say(c, "You are already in the " \o a \o ".")
                crash == [c EXCEPT !.crashed = TRUE]
                r1 ==
                  IF c.part \in {"cabin_front", "mineshaft_entrance", "forestpart1"}
                     /\ a \in grassy_field_dict /\ c.specificaction = 0
                    THEN go("grassy_field")
                  ELSE IF c.part = "grassy_field" /\ c.specificaction = 1
                          /\ c.isjustspecificaction = 1
                    THEN go("cabin_front")
                  ELSE IF c.part = "grassy_field" /\ c.specificaction = 0
                    THEN IF a \in grassy_field_dict THEN Say(c, "You are already at the grassy field.")
                         ELSE IF a \in mineshaft_dict THEN go("mineshaft_entrance")
                         ELSE IF a \in forest_dict THEN go("forestpart1")
                         ELSE gotoerror(c)
                  ELSE IF c.part \in {"cabin_living_room", "cabin_1st_floor_bathroom",
                                      "cabin_1st_floor_bedroom", "cabin_kitchen"}
                    THEN IF a \in living_room_dict /\ fl < 2 /\ c.specificaction < 2
                           THEN IF c.part # "cabin_living_room" THEN go("cabin_living_room")
                                ELSE already
                         ELSE IF a \in bathroom_dict /\ fl < 2 /\ c.specificaction < 2
                           THEN IF c.part # "cabin_1st_floor_bathroom"
                                  THEN go("cabin_1st_floor_bathroom") ELSE already
                         ELSE IF a \in bedroom_dict /\ fl < 2 /\ c.specificaction < 2
                           THEN IF c.part # "cabin_1st_floor_bedroom"
                                  THEN go("cabin_1st_floor_bedroom") ELSE already
                         ELSE IF (fl = 2 /\ c.isjustfloornumberaction = 1 /\ c.specificaction < 2)
                                 \/ (a \in go_to_upstairs_dict /\ fl = 0 /\ c.specificaction = 0)
                           THEN go("cabin_2nd_floor_bedroom_connecter")
                         ELSE gotoerror(c)
                  ELSE IF c.part = "cabin_2nd_floor_bedroom_connecter"
                    THEN IF (fl < 2 /\ (a \in living_room_dict
                                        \/ (Sl(a, 0, 6) = "cabin " /\ From(a, 6) \in living_room_dict)))
                            \/ (fl = 1 /\ c.isjustfloornumberaction = 1)
                            \/ a \in go_to_downstairs_dict
                           THEN go("cabin_living_room")
                         ELSE IF fl = 1 /\ a \in bathroom_dict THEN go("cabin_1st_floor_bathroom")
                         ELSE IF fl = 1 /\ a \in bedroom_dict THEN go("cabin_1st_floor_bedroom")
                         ELSE IF fl = 1 THEN crash       \* action in kitchen_dict
                         ELSE IF a = "attic"
                           THEN IF c.changableobjects["cabin_attic_ladder_placed"] = 1
                                   /\ c.lockeddoors["cabin_attic_hatch"] = 0
                                  THEN crash             \* part = cabin_attic
                                ELSE IF c.changableobjects["cabin_attic_ladder_placed"] = 1
                                        /\ c.lockeddoors["cabin_attic_hatch"] = 1
                                  THEN Say(c, "[random wording] You will need to unlock the cabin attic hatch.")
                                ELSE IF c.changableobjects["cabin_attic_ladder_placed"] = 0
                                  THEN Say(c, "[random wording] You will need a ladder to reach the attic.")
                                ELSE IF c.inventory["ladder"] = 1
                                  THEN Say(c, "[random wording] You will need to place a ladder to access the attic.")
                                ELSE c
                         ELSE gotoerror(c)
                  ELSE IF c.generalpart = "simpsons_house" /\ a = "simpsons home"
                    THEN Say(c, "You are already at the Simpsons home.")
                  ELSE IF c.generalpart = "springfield_school" /\ a = "simpsons school"
                    THEN Say(c, "You are already at the Springfield Elementary School.")
                  ELSE IF c.generalpart = "kwik_e_mart" /\ a = "kwik_e_mart"
                    THEN Say(c, "You are already at the Kwik-E-Mart.")
                  ELSE IF c.part \in {"simpsons_house_front", "springfield_school", "kwik_e_mart"}
                    THEN IF a = "simpsons home" THEN gogeneral("simpsons_house", "simpsons_house_front")
                         ELSE IF a = "simpsons school"
                           THEN gogeneral("springfield_school", "springfield_school_front")
                         ELSE IF a = "kwik-e-mart" THEN gogeneral("kwik_e_mart", "kwik_e_mart_front")
                         ELSE gotoerror(c)
                  ELSE gotoerror(c)
            IN  IF r1.crashed THEN r1 ELSE [r1 EXCEPT !.done = 1]
          floors(f) ==
            IF f.done > 1 THEN Say(f, "You typed to many floors.")
            ELSE at(StripCabin([f EXCEPT !.done = 0]))
      IN  floors(StripFloors(r, 1, Len(r.floororder)))
    ELSE r

(***************************************************************************)
(* dosomethingwithsomething: unlock, put out, use X on Y, open curtains    *)
(***************************************************************************)
key_dict == {"key"}
water_bucket_dict == {"bucket", "water bucket"}
items_to_use_dict == key_dict \cup water_bucket_dict
things_to_use_keys_on_dict == {"door", "to unlock door"}
things_to_use_water_on_dict == fire_place_dict
things_to_use_items_on_dict == things_to_use_keys_on_dict \cup fire_place_dict
use_key_on_door_dict == {"door", "to unlock door"}

\* the record m carries the locals itemtouse and useitemonaction; ret marks
\* an early return
UnlockPart(m) ==
  IF Find(m.action, "unlock") = 0 /\ Sl(m.action, 6, 7) \in space_after_action_dict
    THEN
      LET target(m2) ==
            IF m2.starved THEN m2
            ELSE IF m2.useitemonaction \notin things_to_use_keys_on_dict
                    /\ m2.useitemonaction \in things_to_use_items_on_dict
              THEN [Say(m2, "You can't unlock that.") EXCEPT !.done = 1, !.ret = TRUE]
            ELSE IF m2.useitemonaction \notin things_to_use_items_on_dict
              THEN [Say(m2, "We don't know what your trying to unlock.")
                      EXCEPT !.done = 1, !.ret = TRUE]
            ELSE m2
          answered(asked) == [asked EXCEPT !.useitemonaction = asked.action, !.action = ""]
          rest(m1) ==
            IF m1.action = ""
              THEN target(answered(Ask(m1, "What would you like to unlock?")))
              ELSE target([m1 EXCEPT !.useitemonaction = m1.action])
      IN  rest([m EXCEPT !.action = From(m.action, 7), !.actiontype = {"use item"},
                         !.itemtouse = "key"])
    ELSE m

\* the body of the loop over things_to_use_water_on_dict for a phrase that
\* starts the argument
PutOutItem(m, item) ==
  LET tool(m4) ==
        IF m4.itemtouse \notin items_to_use_dict
          THEN [Say(m4, "We don't know what your trying to use to put out the " \o item \o ".")
                  EXCEPT !.done = 1, !.ret = TRUE]
          ELSE m4
      given(m3) == IF m3.starved THEN m3 ELSE tool([m3 EXCEPT !.itemtouse = m3.action])
      with(m2) ==
        IF m2.action = ""
          THEN given(Ask(m2, "What would you like to use to put out the " \o item \o "."))
          ELSE given(m2)
      rest(m1) ==
        IF Find(m1.action, "with ") = 0
          THEN with([m1 EXCEPT !.action = Strip(From(m1.action, 5))])
          ELSE with(m1)
  IN  rest([m EXCEPT !.useitemonaction = item, !.action = From(m.action, Len(item) + 1)])

RECURSIVE PutOutLoop(_, _, _)
PutOutLoop(m, items, i) ==
  IF i > Len(items) \/ m.ret \/ m.starved THEN m
  ELSE IF StartsWord(m.action, items[i])
    THEN PutOutLoop(PutOutItem(m, items[i]), items, i + 1)
    ELSE PutOutLoop([m EXCEPT !.itemschecked = @ + 1], items, i + 1)

PutOutPart(m) ==
  IF Find(m.action, "put out") = 0 /\ Sl(m.action, 7, 8) \in space_after_action_dict
    THEN
      LET things(m3) == PutOutLoop(m3, <<"fireplace", "fire place">>, 1)
          named(m2) ==
            IF m2.starved THEN m2
            ELSE IF Find(m2.action, "the ") = 0
              THEN things([m2 EXCEPT !.action = Strip(From(m2.action, 4))])
            ELSE things(m2)
          rest(m1) ==
            IF m1.action = "" THEN named(Ask(m1, "What would you like to put out?"))
            ELSE named(m1)
      IN  rest([m EXCEPT !.action = Strip(From(m.action, 8)), !.actiontype = {"use item"}])
    ELSE m

\* the test that forgets the things a bucket cannot be used on
Incompatible_keys(item, target) ==
  item \in key_dict /\ target \notin things_to_use_keys_on_dict

\* the item cannot be used on the target
Incompatible(item, target) ==
  \/ item \in key_dict /\ target \notin things_to_use_keys_on_dict
  \/ item \in water_bucket_dict /\ target \notin things_to_use_water_on_dict

UsePart(m) ==
  IF Find(m.action, "use ") = 0
    THEN
      LET on(m2) ==
            LET item == m2.itemtouse
                target == m2.useitemonaction
            IN  IF target \notin things_to_use_items_on_dict
                  THEN [Say(m2, "We don't know what your trying to use the " \o item \o " on.")
                          EXCEPT !.done = 1, !.ret = TRUE]
                ELSE IF Incompatible(item, target)
                  THEN [Say(m2, "You can't use a " \o item \o " on a " \o target \o ".")
                          EXCEPT !.done = 1, !.ret = TRUE]
                ELSE m2
          rest(m1) ==
            LET hit == {item \in items_to_use_dict : StartsWord(m1.action, item)}
                first == CHOOSE x \in hit : TRUE
            IN  IF hit = {} THEN [m1 EXCEPT !.itemschecked = Cardinality(items_to_use_dict)]
                ELSE on([m1 EXCEPT !.itemtouse = first,
                                   !.useitemonaction = From(m1.action, Len(first) + 1)])
      IN  rest([m EXCEPT !.action = From(m.action, 4), !.actiontype = {"use item"}])
    ELSE m

\* the front door unlocked without giving up the key
UseKeyOnDoor_keep(m) ==
  IF m.inventory["cabin_key"] = 0 /\ m.lockeddoors["cabin_front_door"] = 1
    THEN Say(m, "You will require a key to unlock the door.")
  ELSE IF m.inventory["cabin_key"] = 1 /\ m.lockeddoors["cabin_front_door"] = 1
    THEN [Say(m, "You use the cabin key to unlock the front door.")
            EXCEPT !.lockeddoors["cabin_front_door"] = 0]
  ELSE IF m.lockeddoors["cabin_front_door"] = 0
    THEN Say(m, "The door is already unlocked.")
  ELSE m

\* a key used on the door at cabin_front
UseKeyOnDoor(m) ==
  IF m.inventory["cabin_key"] = 0 /\ m.lockeddoors["cabin_front_door"] = 1
    THEN Say(m, "You will require a key to unlock the door.")
  ELSE IF m.inventory["cabin_key"] = 1 /\ m.lockeddoors["cabin_front_door"] = 1
    THEN [Say(m, "You use the cabin key to unlock the front door.")
            EXCEPT !.lockeddoors["cabin_front_door"] = 0, !.inventory["cabin_key"] = 0]
  ELSE IF m.lockeddoors["cabin_front_door"] = 0
    THEN Say(m, "The door is already unlocked.")
  ELSE m

\* the fire put out wherever the player stands
PutOutFire_anywhere(m) ==
  IF m.inventory["bucket"] = 1 /\ m.inventory["water_bucket"] = 0
    THEN Say(m, "You will have to fill the bucket with water first.")
  ELSE IF m.inventory["water_bucket"] = 1 /\ m.inventory["bucket"] = 0
    THEN [Say(m, "You put out the fire with the water bucket.")
            EXCEPT !.inventory["water_bucket"] = 0, !.inventory["bucket"] = 1,
                   !.changableobjects["lit_cabin_fireplace"] = 0]
  ELSE IF m.inventory["water_bucket"] = 0 /\ m.inventory["bucket"] = 0
    THEN Say(m, "You don't have a water bucket to put the fire out with.")
  ELSE m

\* a bucket used on the fireplace
PutOutFire(m) ==
  IF m.part = "cabin_living_room"
    THEN IF m.inventory["bucket"] = 1 /\ m.inventory["water_bucket"] = 0
           THEN Say(m, "You will have to fill the bucket with water first.")
         ELSE IF m.inventory["water_bucket"] = 1 /\ m.inventory["bucket"] = 0
           THEN [Say(m, "You put out the fire with the water bucket.")
                   EXCEPT !.inventory["water_bucket"] = 0, !.inventory["bucket"] = 1,
                          !.changableobjects["lit_cabin_fireplace"] = 0]
         ELSE IF m.inventory["water_bucket"] = 0 /\ m.inventory["bucket"] = 0
           THEN Say(m, "You don't have a water bucket to put the fire out with.")
         ELSE m
    ELSE Say(m, "We don't know what " \o m.useitemonaction \o " your trying to put out.")

UseItem(m) ==
  IF "use item" \in m.actiontype
    THEN
      IF m.itemtouse \in key_dict
        THEN IF m.useitemonaction \in use_key_on_door_dict
               THEN [(IF m.part = "cabin_front"
                        THEN UseKeyOnDoor(m)
                        ELSE Say(m, "There isn't a " \o m.useitemonaction \o " to use a "
                                      \o m.itemtouse \o " on here."))
                       EXCEPT !.done = 1]
               ELSE m
      ELSE IF m.itemtouse \in water_bucket_dict
        THEN IF m.useitemonaction \in fire_place_dict
               THEN [PutOutFire(m) EXCEPT !.done = 1]
               ELSE m
      ELSE m
  ELSE IF m.action \in open_curtains_dict
    THEN [(IF m.part = "cabin_1st_floor_bathroom"
             THEN IF "peeper" \in abilities THEN Say(m, "You pull back the curtains.")
                  ELSE Say(m, "You will require the peeper ability to draw back the curtains.")
             ELSE Say(m, "There are no curtains to open here."))
            EXCEPT !.done = 1]
  ELSE m

dosomethingwithsomething(r) ==
  LET used(m4) ==
        IF m4.ret THEN m4
        ELSE IF m4.itemschecked = Cardinality(items_to_use_dict)
          THEN [Say(m4, "We don't know what your trying to use.") EXCEPT !.done = 1]
        ELSE UseItem(m4)
      joined(m2, on) ==
        IF on > -1
          THEN used(UsePart([m2 EXCEPT !.action = Sl(m2.action, 0, on + 1)
                                                    \o From(m2.action, on + 4),
                                       !.itemschecked = 0]))
          ELSE used(UsePart([m2 EXCEPT !.itemschecked = 0]))
      putout(m2) ==
        IF m2.ret \/ m2.starved THEN m2
        ELSE IF m2.itemschecked = Cardinality(things_to_use_water_on_dict)
          THEN [Say(m2, "We don't know what your trying to put out.") EXCEPT !.done = 1]
        ELSE joined(m2, Find(m2.action, " on "))
      unlocked(m1) ==
        IF m1.ret \/ m1.starved THEN m1
        ELSE putout(PutOutPart([m1 EXCEPT !.itemschecked = 0]))
  IN  unlocked(UnlockPart([r EXCEPT !.itemtouse = "", !.useitemonaction = ""]))

(***************************************************************************)
(* fight, stats, takeobject and the list handlers                          *)
(***************************************************************************)
\* a fight that wounds the imp
fight_hit(r) ==
  IF "fight" \in r.actiontype
    THEN [(IF r.part = "cavepart2" /\ r.enemiesalive["cavepart2_r1_imp"] = 1
             THEN [Say(Say(Say(r, "The imp seems to be minding his own business."), ""),
                       "You fought wronf!")
                     EXCEPT !.yesornotype = "fight",
                            !.npc_stats["health_cavepart2_r1_imp"] = @ - 1]
             ELSE r)
            EXCEPT !.done = 1]
    ELSE r

fight(r) ==
  IF "fight" \in r.actiontype
    THEN [(IF r.part = "cavepart2" /\ r.enemiesalive["cavepart2_r1_imp"] = 1
             THEN [Say(Say(Say(r, "The imp seems to be minding his own business."), ""),
                       "You fought wronf!")
                     EXCEPT !.yesornotype = "fight"]
             ELSE r)
            EXCEPT !.done = 1]
    ELSE r

stats(r) ==
  IF r.action = "print stats" \/ r.action = "diagnose"
    THEN [Say(Say(Say(r, StrOf(r.healthpoints)), StrOf(r.attackpoints)),
              StrOf(r.defencepoints))
            EXCEPT !.done = 1]
    ELSE r

\* the key taken from the table without the table losing it
TakeKey_again(r) ==
  IF r.part = "cabin_living_room" /\ r.changableobjects["cabin_upstairs_bedroom_key_on_table"] = 1
    THEN [Say(r, "You " \o r.action2 \o " the key.")
            EXCEPT !.inventory["cabin_upstairs_bedroom_key"] = 1]
  ELSE IF r.part = "cabin_living_room"
          /\ r.changableobjects["cabin_upstairs_bedroom_key_on_table"] = 0
    THEN Say(r, "You already picked up the key.")
  ELSE Say(r, "There is no " \o r.action \o " to " \o r.action2 \o " here.")

\* the key taken from the table wherever the player stands
TakeKey_anywhere(r) ==
  IF r.changableobjects["cabin_upstairs_bedroom_key_on_table"] = 1
    THEN [Say(r, "You " \o r.action2 \o " the key.")
            EXCEPT !.inventory["cabin_upstairs_bedroom_key"] = 1,
                   !.changableobjects["cabin_upstairs_bedroom_key_on_table"] = 0]
  ELSE IF r.part = "cabin_living_room"
          /\ r.changableobjects["cabin_upstairs_bedroom_key_on_table"] = 0
    THEN Say(r, "You already picked up the key.")
  ELSE Say(r, "There is no " \o r.action \o " to " \o r.action2 \o " here.")

\* take with the argument "key" or "key on table"
TakeKey(r) ==
  IF r.part = "cabin_living_room" /\ r.changableobjects["cabin_upstairs_bedroom_key_on_table"] = 1
    THEN [Say(r, "You " \o r.action2 \o " the key.")
            EXCEPT !.inventory["cabin_upstairs_bedroom_key"] = 1,
                   !.changableobjects["cabin_upstairs_bedroom_key_on_table"] = 0]
  ELSE IF r.part = "cabin_living_room"
          /\ r.changableobjects["cabin_upstairs_bedroom_key_on_table"] = 0
    THEN Say(r, "You already picked up the key.")
  ELSE Say(r, "There is no " \o r.action \o " to " \o r.action2 \o " here.")

takeobject(r) ==
  IF "take" \in r.actiontype
    THEN
      LET a == r.action
          takeobjecterror == Say(r, "There is no " \o a \o " to " \o r.action2 \o " here.")
          r1 ==
            IF a = "key" \/ a = "key on table"
              THEN TakeKey(r)
            ELSE IF a = "portal gun"
              THEN IF r.part = "cabin_attic"
                     THEN [r EXCEPT !.dialogpart = "rick_and_morty_apear_in_attic",
                                    !.indialog = 1]
                     ELSE takeobjecterror
            ELSE IF a = "torch"
              THEN IF r.action2 = "pick up" /\ r.part = "cavepart2_l1"
                     THEN Say(Say(r, "You can only pick up objects sitting on something."),
                              "Instead type: >take >snatch >grab")
                   ELSE IF r.inventory["unlit_torch"] = 0 /\ r.inventory["lit_torch"] = 0
                     THEN IF r.part = "cavepart2_l1"
                            THEN [Say(r, "As you " \o r.action2
                                           \o " the torch of the wall the flame goes out.")
                                    EXCEPT !.inventory["unlit_torch"] = 1]
                            ELSE takeobjecterror
                   ELSE IF r.inventory["unlit_torch"] = 1 \/ r.inventory["lit_torch"] = 1
                     THEN IF r.part = "cavepart2_l1"
                            THEN IF r.inventory["lit_torch"] = 1
                                   THEN Say(r, "You already have a lit torch in your inventory.")
                                 ELSE IF r.inventory["unlit_torch"] = 1
                                   THEN Say(r, "You already have a torch in your inventory.")
                                 ELSE r
                            ELSE takeobjecterror
                   ELSE r
            ELSE IF a = "ladder"
              THEN IF r.part = "cabin_front"
                     THEN IF r.changableobjects["ladder_on_side_of_cabin"] = 1
                            THEN IF r.inventory["ladder"] = 1
                                   THEN Say(r, "You already have a " \o a \o ".")
                                 ELSE IF r.inventory["ladder"] = 0
                                   THEN [Say(r, "You " \o r.action2 \o " the " \o a \o ".")
                                           EXCEPT !.changableobjects["ladder_on_side_of_cabin"] = 0,
                                                  !.inventory["ladder"] = 1]
                                 ELSE r
                          ELSE IF r.changableobjects["ladder_on_side_of_cabin"] = 0
                            THEN Say(r, "You already took the " \o a \o ".")
                          ELSE r
                     ELSE takeobjecterror
            ELSE Say(r, "We don't know what your trying to " \o r.action2 \o ".")
      IN  [r1 EXCEPT !.done = 1]
    ELSE r

\* the command list printed without claiming the command
listcommands_open(r) ==
  IF r.action = "list commands"
    THEN Say(Say(r, "Commands:"), "[the command list]")
    ELSE r

listcommands(r) ==
  IF r.action = "list commands"
    THEN [Say(Say(r, "Commands:"), "[the command list]") EXCEPT !.done = 1]
    ELSE r

\* the labels of the entries of shown that the player holds
ListHeld(r, shown) ==
  LET held == SelectSeq(shown, LAMBDA e : r.inventory[e[1]] = 1)
  IN  [r EXCEPT !.out = @ \o [i \in 1..Len(held) |-> held[i][2]]]

listinventory(r) ==
  IF r.action \in {"list inventory", "show inventory", "open inventory"}
    THEN [ListHeld(Say(r, "Inventory: "),
                   << <<"cabin_key", " - Cabin Key">>,
                      <<"cabin_upstairs_bedroom_key", " - Upstairs Cabin Bedroom Key">>,
                      <<"water_bucket", " - Bucket Filled With Water">>,
                      <<"bucket", " - Bucket">>,
                      <<"lit_torch", " - Torch">>,
                      <<"unlit_torch", " - Unlit Torch">>,
                      <<"portal_gun", " - Portal Gun">> >>)
            EXCEPT !.done = 1]
    ELSE r

\* the labels of the entries of shown that have a discovered place
ListSeen(r, shown) ==
  LET seen == SelectSeq(shown, LAMBDA e : e[1] \cap r.placesdiscovered # {})
  IN  [r EXCEPT !.out = @ \o [i \in 1..Len(seen) |-> seen[i][2]]]

listplaces(r) ==
  IF r.action = "list places"
    THEN [ListSeen(Say(r, "Places Discovered: "),
                   << <<{"grassy_field"}, " - Grassy Field">>,
                      <<{"forestpart1"}, " - Forest">>,
                      <<{"mineshaft_entrance"}, " - Mineshaft Entrance">>,
                      <<{"cavepart1", "cavepart2", "cavepart2_l1", "cavepart2_r1"}, " - Cave">>,
                      <<{"cabin_front"}, " - Cabin">>,
                      <<{"simpsons_house_front"}, " - Simpsons House">>,
                      <<{"springfield_school"}, " - Groundskeeper Willie's Shack">> >>)
            EXCEPT !.done = 1]
    ELSE r

listquests(r) ==
  IF r.action = "list quests"
    THEN LET r1 == Say(r, "Quests:")
             r2 == IF "simpsons_house" \in r.placesdiscovered
                     THEN IF r.questlist["get_bart_slingshot"] = 0
                             /\ r.questlist["get_bart_skateboard"] = 0
                            THEN Say(Say(r1, " Bart:"), " - ???") ELSE Say(r1, " Bart:")
                     ELSE r1
             r3 == IF r.questlist["get_rick_duff_beer"] = 1
                     THEN Say(Say(r2, " Rick:"), " - Get Rick Some Duff Beer") ELSE r2
         IN  [r3 EXCEPT !.done = 1]
    ELSE r

(***************************************************************************)
(* The main loop.                                                          *)
(***************************************************************************)
MaxTurns == 4      \* command lines read in one run
MaxPrompts == 2    \* lines a single command may ask for beyond the command line

\* what the player types at the main prompt, and at the prompts inside a turn
Commands ==
  {"n", "e", "s", "w", "se", "nw", "go north", "left", "right", "go back",
   "enter", "go inside", "enter bathroom", "leave", "go to field", "go to cabin",
   "go to upstairs", "tp cabin", "tp attic", "unlock door", "use key on door", "unlock",
   "use bucket on fireplace", "use key on fireplace", "take key", "take ladder",
   "take portal gun", "take", "yes", "no", "save", "settings", "paratype = 2",
   "list inventory", "fight imp", "1", "4", "xyzzy", "take key go"}

Answers == {"no", "north", "door", "key", "take", "examine"}

\* the orders in which one run of the interpreter walks its sets
HashSeeds == {1, 2}
VerbOrder(seed) == IF seed = 1 THEN OrderListed ELSE Reverse(OrderListed)
FloorOrder(seed) == IF seed = 1 THEN FloorListed ELSE Reverse(FloorListed)

Init ==
  /\ pc = "top"
  /\ part = "grassy_field"
  /\ generalpart = "base_universe"
  /\ previouspart = <<"grassy_field">>
  /\ placesdiscovered = {"grassy_field"}
  /\ inventory = [cabin_key |-> 1, cabin_upstairs_bedroom_key |-> 0, water_bucket |-> 1,
                  bucket |-> 0, unlit_torch |-> 0, lit_torch |-> 0, ladder |-> 0,
                  portal_gun |-> 1]
  /\ questlist = [get_rick_duff_beer |-> 1, get_bart_slingshot |-> 0,
                  get_bart_skateboard |-> 0]
  /\ lockeddoors = [cabin_front_door |-> 1, cabin_attic_hatch |-> 1]
  /\ changableobjects = [lit_cabin_fireplace |-> 1, cabin_upstairs_bedroom_key_on_table |-> 1,
                         ladder_on_side_of_cabin |-> 1, cabin_attic_ladder_placed |-> 1]
  /\ beento = [grassy_field |-> 0, cavepart1 |-> 0, cavepart2 |-> 0]
  /\ enemiesalive = [cavepart2_r1_imp |-> 1]
  /\ npc_stats = [health_cavepart2_r1_imp |-> 10, attack_cavepart2_r1_imp |-> 2,
                  defence_cavepart2_r1_imp |-> 1]
  /\ healthpoints = 20 /\ attackpoints = 0 /\ defencepoints = 0
  /\ paratype = 1 /\ developermode = 0
  /\ description = 1 /\ printd = 0
  /\ yesornotype = "" /\ yesornoaction = 0
  /\ dialogpart = "" /\ indialog = 0 /\ choosedialog = 0 /\ dialogschosen = <<>>
  /\ action = "" /\ action2 = "" /\ actiontype = {} /\ done = 0
  /\ out = <<>> /\ acted = <<>> /\ typed = "" /\ lines = 0 /\ savefile = "" /\ turns = 0
  /\ savedstate = <<>>

\* placesdiscovered.add(generalpart); placesdiscovered.add(part)
Discover(r) == [r EXCEPT !.placesdiscovered = @ \cup {r.generalpart, r.part}]

\* The loop body from "done = 0" to the input(">") of the main loop.  When the
\* description is printed or a dialog scene opens, done is 1, nothing is read
\* and the body runs on to its end.  action and action2 are not touched here
\* by the code; nothing reads them before the next line is read (only the
\* prose of a description does), so the model clears them.
Prologue ==
  /\ pc = "top"
  /\ LET ask(r1) == Call(r1, "askyesorno", askyesorno(r1))
         talk(r2) == Call(r2, "dialog", dialog(r2))
         end(r3) == IF r3.done = 0
                      THEN pc' = "read" /\ Commit(r3)
                      ELSE pc' = "top" /\ Commit(Discover(r3))
     IN  end(talk(ask(printdescription(gobackto(Cur)))))
  /\ typed' = "" /\ lines' = 0
  /\ UNCHANGED <<savefile, savedstate, turns>>

\* the handlers of the main loop after calculateactiontype, in the order in
\* which the loop calls them
HandlerOrder ==
  <<"chooseadialog", "printdescriptionaction", "settings", "save", "load", "yesorno",
    "examine", "tp", "enter", "move", "leftright", "leave", "goto", "goback",
    "dosomethingwithsomething", "fight", "stats", "takeobject", "listcommands",
    "listinventory", "listplaces", "listquests">>

Handler(name, r) ==
  CASE name = "chooseadialog" -> chooseadialog(r)
    [] name = "printdescriptionaction" -> printdescriptionaction(r)
    [] name = "settings" -> settings(r)
    [] name = "save" -> save(r)
    [] name = "load" -> load(r)
    [] name = "yesorno" -> yesorno(r)
    [] name = "examine" -> examine(r)
    [] name = "tp" -> tp(r)
    [] name = "enter" -> enter(r)
    [] name = "move" -> move(r)
    [] name = "leftright" -> leftright(r)
    [] name = "leave" -> leave(r)
    [] name = "goto" -> goto(r)
    [] name = "goback" -> goback(r)
    [] name = "dosomethingwithsomething" -> dosomethingwithsomething(r)
    [] name = "fight" -> fight(r)
    [] name = "stats" -> stats(r)
    [] name = "takeobject" -> takeobject(r)
    [] name = "listcommands" -> listcommands(r)
    [] name = "listinventory" -> listinventory(r)
    [] name = "listplaces" -> listplaces(r)
    [] name = "listquests" -> listquests(r)

\* the "if done == 0: handler()" lines of the handlers lo..hi, in order:
\* those of the first half, then those of the second half
RECURSIVE Handlers(_, _, _)
Handlers(r, lo, hi) ==
  IF r.done # 0 \/ r.crashed \/ r.starved THEN r
  ELSE IF lo = hi THEN Call(r, HandlerOrder[lo], Handler(HandlerOrder[lo], r))
  ELSE Handlers(Handlers(r, lo, (lo + hi) \div 2), (lo + hi) \div 2 + 1, hi)

\* print('Thats not a valid action!') when no handler claimed the command
Fallback(r) ==
  IF r.done = 0 /\ ~r.crashed /\ ~r.starved
    THEN [Say(r, "Thats not a valid action!") EXCEPT !.acted = Append(@, "fallback")]
    ELSE r

\* the loop body from calculateactiontype to the fallback message
Chain(r0, seed) ==
  Fallback(Handlers(calculateactiontype(r0, VerbOrder(seed),
                                        r0.part \in {"cabin_front", "simpsons_house_front"}),
                    1, Len(HandlerOrder)))

Run(cmd, answers, seed) ==
  Chain([Cur EXCEPT !.action = cmd, !.inq = answers, !.floororder = FloorOrder(seed)], seed)

\* The end of the loop body, or the end of the process.  A save prints the
\* save string and the player copies it; the backup that a load prints before
\* it loads is copied or not.
Finish(r, cmd) ==
  /\ IF r.crashed
       THEN pc' = "crashed" /\ Commit(r)
       ELSE pc' = "top" /\ Commit(Discover(r))
  /\ typed' = cmd
  /\ lines' = 1 + r.prompts
  /\ \E copy \in IF r.saved = "" THEN {FALSE}
                  ELSE IF "load" \in r.actiontype THEN {FALSE, TRUE}
                  ELSE {TRUE} :
       /\ savefile' = IF copy THEN r.saved ELSE savefile
       /\ savedstate' = IF copy THEN r.savedat ELSE savedstate
  /\ turns' = turns + 1

\* What one command can come to: the chain run on the command line and on
\* the lines the player types at the prompts the handlers open, one more line
\* for every prompt that found none.
RECURSIVE Outcomes(_, _, _)
Outcomes(cmd, seed, answers) ==
  LET r == Run(cmd, answers, seed)
  IN  IF ~r.starved THEN {r}
      ELSE IF Len(answers) >= MaxPrompts THEN {}
      ELSE UNION {Outcomes(cmd, seed, Append(answers, a)) : a \in Answers}

\* the save string the player can paste back in as a load command
Pasted == IF savefile = "" THEN {} ELSE {"load " \o savefile}

\* One turn: a command line is read at the main prompt and the loop body
\* runs to its end.
Turn(cmds, limit) ==
  /\ pc = "read"
  /\ turns < limit
  /\ \E cmd \in cmds \cup Pasted, seed \in HashSeeds :
       \E r \in Outcomes(cmd, seed, <<>>) : Finish(r, cmd)

Next == Prologue \/ Turn(Commands, MaxTurns)

Spec == Init /\ [][Next]_vars

\* The same program played with the commands about the cabin only, for longer.
MaxCabinTurns == 6

CabinCommands ==
  {"se", "nw", "enter", "leave", "unlock door", "use key on door", "take key",
   "take ladder", "go back", "save", "enter bathroom", "xyzzy", "take key on table"}

NextCabin == Prologue \/ Turn(CabinCommands, MaxCabinTurns)

SpecCabin == Init /\ [][NextCabin]_vars

\* The same program played with the commands that walk the map and take
\* objects: every compass direction, the cave, the portal gun.
MaxWalkTurns == 6

WalkCommands ==
  {"n", "e", "s", "w", "ne", "se", "sw", "nw", "go north", "yes", "left", "tp attic",
   "take key", "take torch", "take ladder", "take portal gun", "unlock door", "enter",
   "go to field", "go to cabin", "go to mineshaft", "go to forest", "go to living room",
   "go to bathroom", "go to upstairs", "tp simpsons", "go to simpsons home"}

NextWalk == Prologue \/ Turn(WalkCommands, MaxWalkTurns)

SpecWalk == Init /\ [][NextWalk]_vars

\* The same program played with the commands that use the key and the bucket
\* on the door and the fireplace, at the cabin and inside it.
MaxHouseTurns == 6

HouseCommands ==
  {"se", "unlock door", "enter", "leave", "save", "use key on fireplace",
   "use bucket on door", "use water bucket on door", "use bucket on fireplace",
   "use water bucket on fireplace", "put out fireplace with water bucket"}

NextHouse == Prologue \/ Turn(HouseCommands, MaxHouseTurns)

SpecHouse == Init /\ [][NextHouse]_vars

\* The same program played with save and load: the save string pasted back
\* as it was printed or damaged by hand, and load commands with other
\* arguments.
MaxLoadTurns == 5

\* the copied save string with the value of cabin_key made a letter
BadValue(text) ==
  LET i == Find(text, "cabin_key:") IN Sl(text, 0, i + 10) \o "a" \o From(text, i + 11)

\* the copied save string with the marker after the inventory taken out
NoMarker(text) == LET i == Find(text, "': 3") IN Sl(text, 0, i) \o From(text, i + 4)

Damaged ==
  IF savefile = "" THEN {}
  ELSE {"load " \o BadValue(savefile), "load " \o NoMarker(savefile)}

LoadCommands ==
  {"save", "se", "w", "unlock door", "load", "load foo", "load unlock door", "load no"}

NextLoad == Prologue \/ Turn(LoadCommands \cup Damaged, MaxLoadTurns)

SpecLoad == Init /\ [][NextLoad]_vars

\* The same program played in the cave, where the imp is.
MaxCaveTurns == 6

CaveCommands ==
  {"w", "e", "right", "left", "fight imp", "fight", "yes", "no", "n", "go back", "go w",
   "go to e", "go n", "go to left", "go r"}

NextCave == Prologue \/ Turn(CaveCommands, MaxCaveTurns)

SpecCave == Init /\ [][NextCave]_vars

\* The same program played in the attic, where the dialogue scene is.
MaxAtticTurns == 6

AtticCommands == {"tp attic", "take portal gun", "1", "2", "3", "4", "5", "n", "go back"}

NextAttic == Prologue \/ Turn(AtticCommands, MaxAtticTurns)

SpecAttic == Init /\ [][NextAttic]_vars

\* The same program played with the reporting commands, between commands
\* that change what they report.
MaxListTurns == 4

ListCommands ==
  {"list inventory", "show inventory", "open inventory", "list places", "list quests",
   "list commands", "settings", "list settings", "w", "se", "unlock door", "take ladder",
   "tp attic", "take portal gun", "tp simpsons", "4"}

NextList == Prologue \/ Turn(ListCommands, MaxListTurns)

SpecList == Init /\ [][NextList]_vars

\* The same program played with commands that try the classifier: verbs
\* with unknown targets, bare verbs, several verbs in one line, verbs inside
\* other words, and the direction words after go and go to.
MaxParseTurns == 3

ParseCommands ==
  {"examine nonsense", "tp nowhere", "enter nonsense", "leave nonsense", "go to nowhere",
   "take nonsense", "use key on lamp", "unlock nonsense", "se", "w", "tp simpsons",
   "take key go", "go to cabin enter", "tp attic take portal gun", "load x",
   "take", "examine", "go to", "tp", "fight", "enter", "take box",
   "go to 1st floor 2nd floor", "go to 1stfloor 2ndfloor", "enter 2nd floor 3rd floor",
   "go to 1st floor bathroom", "enter floor 2", "examine x"}

NextParse == Prologue \/ Turn(ParseCommands, MaxParseTurns)

SpecParse == Init /\ [][NextParse]_vars

(***************************************************************************)
(* Properties.  A state with lines > 0 is the end of a turn: the state     *)
(* after a command was read and the handler chain has run.                 *)
(***************************************************************************)
Last(q) == q[Len(q)]
Printed(line) == \E i \in 1..Len(out) : out[i] = line
Acted(name) == \E i \in 1..Len(acted) : acted[i] = name

\* C1: whenever the engine reads a command, the location history is
\* non-empty and its last element is the current location.
C1_HistoryTop == pc = "read" => (Len(previouspart) > 0 /\ Last(previouspart) = part)

\* a command is read after the player went somewhere and came back another way
C1_Witness ==
  /\ pc = "read" /\ Len(previouspart) >= 3
  /\ part = "grassy_field" /\ Last(previouspart) = part

\* the handlers the main loop calls before goback
BeforeGoBack ==
  {"chooseadialog", "printdescriptionaction", "settings", "save", "load", "yesorno",
   "examine", "tp", "enter", "move", "leftright", "leave", "goto"}

\* a turn in which a go-back command reaches the goback handler
GoBackTurn ==
  /\ pc = "read" /\ lines' > 0
  /\ "go back" \in actiontype'
  /\ \A i \in 1..Len(acted') : acted'[i] \notin BeforeGoBack

\* C2: go-back with one history entry changes nothing and prints "There is
\* nothing to go back to."; with two or more entries it removes exactly the
\* last entry and the current location becomes the new last entry.
C2_GoBack ==
  [][GoBackTurn =>
       IF Len(previouspart) = 1
         THEN /\ wvars' = wvars
              /\ \E i \in 1..Len(out') : out'[i] = "There is nothing to go back to."
         ELSE /\ previouspart' = SubSeq(previouspart, 1, Len(previouspart) - 1)
              /\ part' = Last(previouspart')]_vars

\* the end of a go-back turn that popped an entry of a history of three
C2_Witness ==
  /\ lines > 0 /\ typed = "go back" /\ acted = <<"goback">>
  /\ out = <<>> /\ Len(previouspart) = 2 /\ part = Last(previouspart)

Differ ==
  (IF part' # part THEN 1 ELSE 0) + (IF inventory' # inventory THEN 1 ELSE 0)
    + (IF lockeddoors' # lockeddoors THEN 1 ELSE 0)
    + (IF changableobjects' # changableobjects THEN 1 ELSE 0)
    + (IF questlist' # questlist THEN 1 ELSE 0)

\* C4 as stated: a turn changes at most one of location, inventory, lock
\* states, object states and quest progress.
C4_Original == [][Differ <= 1]_vars

\* C4: a turn whose command is not a load changes at most two of location,
\* inventory, lock states, object states and quest progress, and when it
\* changes two they are the inventory together with the lock states or the
\* object states.
C4_Frame ==
  [][(lines' > 0 /\ "load" \notin actiontype') =>
       /\ Differ <= 2
       /\ Differ = 2 => /\ inventory' # inventory
                        /\ lockeddoors' # lockeddoors \/ changableobjects' # changableobjects]_vars

\* the end of the turn that unlocked the front door and used up the key
C4_Witness ==
  /\ lines > 0 /\ typed = "unlock door" /\ acted = <<"dosomethingwithsomething">>
  /\ lockeddoors["cabin_front_door"] = 0 /\ inventory["cabin_key"] = 0

\* C5: a yes/no confirmation pending when a command is read is cleared by
\* the end of that turn, whatever the command.
C5_Cleared == [][(pc = "read" /\ yesornoaction = 1 /\ lines' > 0) => yesornoaction' = 0]_vars

\* a turn read at grassy_field with no question and no dialog choice pending
FieldTurn(line) ==
  /\ pc = "read" /\ lines' > 0 /\ typed' = line
  /\ part = "grassy_field" /\ yesornoaction = 0 /\ choosedialog = 0

\* a turn read at mineshaft_entrance with the question pending
ShaftTurn(line) ==
  /\ pc = "read" /\ lines' > 0 /\ typed' = line
  /\ part = "mineshaft_entrance" /\ yesornoaction = 1 /\ choosedialog = 0

\* C6: from grassy_field with nothing pending, w moves to mineshaft_entrance,
\* where a confirmation is pending whenever a command is read; n then
\* prints "Did you mean no or north?" and reads an answer, which moves the
\* player to grassy_field when it is no and nowhere otherwise.
C6_Scenario ==
  [][/\ FieldTurn("w") => part' = "mineshaft_entrance"
     /\ (pc' = "read" /\ part' = "mineshaft_entrance") => yesornoaction' = 1
     /\ ShaftTurn("n") =>
          /\ lines' = 2 /\ out'[1] = "Did you mean no or north?"
          /\ part' = IF action' = "no" THEN "grassy_field" ELSE "mineshaft_entrance"]_vars

\* the end of the turn that answered no to "Did you mean no or north?"
C6_Witness ==
  /\ lines = 2 /\ typed = "n" /\ action = "no" /\ acted = <<"yesorno">>
  /\ out[1] = "Did you mean no or north?"
  /\ Last(previouspart) = "mineshaft_entrance" /\ part = "grassy_field"

\* a turn read at cabin_front with the front door locked that the enter
\* handler answers
EnterLockedTurn ==
  /\ pc = "read" /\ lines' > 0 /\ acted' = <<"enter">>
  /\ part = "cabin_front" /\ lockeddoors["cabin_front_door"] = 1

\* the one message of enter for each case of holding the key at a locked door
LockedMessage ==
  IF inventory["cabin_key"] = 1
    THEN "You will have to unlock the door first."
    ELSE "It seems to be locked. You will require a key to unlock the door."

\* the enter commands with no argument, "building" or a name of the cabin
EnterDoorLines ==
  {verb \o rest : verb \in enter_dict,
                  rest \in {"", " building"} \cup {" " \o name : name \in cabin_dict}}

\* C7 as stated: at cabin_front with the door locked an enter command does
\* not move the player and prints the message of the case (key held or not).
C7_Original == [][EnterLockedTurn => (part' = part /\ out' = <<LockedMessage>>)]_vars

\* C7: at cabin_front with the door locked no enter command moves the
\* player, and one with no argument, "building" or a name of the cabin
\* prints the message of the case (key held or not).
C7_LockedDoor ==
  [][EnterLockedTurn =>
       /\ part' = part
       /\ typed' \in EnterDoorLines => out' = <<LockedMessage>>]_vars

\* the end of an enter turn at the locked door with the key in hand
C7_Witness ==
  /\ lines > 0 /\ typed = "enter" /\ acted = <<"enter">>
  /\ part = "cabin_front" /\ lockeddoors["cabin_front_door"] = 1
  /\ inventory["cabin_key"] = 1 /\ out = <<"You will have to unlock the door first.">>

\* the turns of C8: the front door opens only by the key used on it at
\* cabin_front, which uses the key up; without the key it stays locked; and
\* enter at the unlocked door leads into the living room
DoorTurn ==
  /\ (lockeddoors["cabin_front_door"] = 1 /\ lockeddoors'["cabin_front_door"] = 0) =>
       /\ pc = "read" /\ part = "cabin_front" /\ inventory["cabin_key"] = 1
       /\ "use item" \in actiontype' /\ inventory'["cabin_key"] = 0
  /\ (pc = "read" /\ lines' > 0 /\ typed' = "enter" /\ acted' = <<"enter">>
        /\ part = "cabin_front" /\ lockeddoors["cabin_front_door"] = 0) =>
       part' = "cabin_living_room"

\* C8 as stated: the front door goes from locked to unlocked only in a turn
\* at cabin_front with cabin_key held and the unlock action, which sets
\* cabin_key to 0; a later enter leads to cabin_living_room.
C8_Original == [][DoorTurn]_vars

\* C8: in a turn whose command is not a load, the front door goes from locked
\* to unlocked only at cabin_front with cabin_key held and the unlock action,
\* which sets cabin_key to 0, so without the key it stays locked; a later
\* enter leads to cabin_living_room.
C8_Unlock == [][(lines' > 0 /\ "load" \notin actiontype') => DoorTurn]_vars

\* the end of the enter turn that followed the unlocking
C8_Witness ==
  /\ lines > 0 /\ typed = "enter" /\ acted = <<"enter">>
  /\ part = "cabin_living_room" /\ Last(previouspart) = "cabin_front"
  /\ lockeddoors["cabin_front_door"] = 0 /\ inventory["cabin_key"] = 0

\* C9: a turn that the enter handler answers changes no lock state and no
\* inventory entry, and at cabin_front with the door locked it only prints.
C9_EnterFrame ==
  [][(pc = "read" /\ lines' > 0 /\ acted' = <<"enter">>) =>
       /\ lockeddoors' = lockeddoors /\ inventory' = inventory
       /\ (part = "cabin_front" /\ lockeddoors["cabin_front_door"] = 1) =>
            (wvars' = wvars /\ Len(out') = 1)]_vars

\* the end of an enter turn at the locked door with the key in hand: the door
\* is still locked and the key still held
C9_Witness ==
  /\ lines > 0 /\ acted = <<"enter">> /\ part = "cabin_front"
  /\ lockeddoors["cabin_front_door"] = 1 /\ inventory["cabin_key"] = 1
  /\ typed = "go inside" /\ Len(out) = 1

\* a take key turn read in the living room that takeobject answers
TakeKeyTurn ==
  /\ pc = "read" /\ lines' > 0 /\ typed' = "take key" /\ acted' = <<"takeobject">>
  /\ part = "cabin_living_room"

\* C10: in cabin_living_room, take key with the key on the table sets the
\* inventory entry of the bedroom key from 0 to 1, clears the key-on-table
\* flag and prints "You take the key."; with the flag cleared it leaves the
\* world unchanged and prints "You already picked up the key."
C10_TakeKey ==
  [][TakeKeyTurn =>
       IF changableobjects["cabin_upstairs_bedroom_key_on_table"] = 1
         THEN /\ inventory["cabin_upstairs_bedroom_key"] = 0
              /\ inventory' = [inventory EXCEPT !["cabin_upstairs_bedroom_key"] = 1]
              /\ changableobjects' =
                   [changableobjects EXCEPT !["cabin_upstairs_bedroom_key_on_table"] = 0]
              /\ out' = <<"You take the key.">>
         ELSE /\ wvars' = wvars
              /\ out' = <<"You already picked up the key.">>]_vars

\* the end of the second take key turn
C10_Witness ==
  /\ lines > 0 /\ typed = "take key" /\ acted = <<"takeobject">>
  /\ part = "cabin_living_room" /\ out = <<"You already picked up the key.">>
  /\ inventory["cabin_upstairs_bedroom_key"] = 1
  /\ changableobjects["cabin_upstairs_bedroom_key_on_table"] = 0

\* the objects that take knows and the one location each is taken from
KnownObjects == {"key", "key on table", "torch", "ladder", "portal gun"}
TakePlace(object) ==
  CASE object \in {"key", "key on table"} -> "cabin_living_room"
    [] object = "torch" -> "cavepart2_l1"
    [] object = "ladder" -> "cabin_front"
    [] object = "portal gun" -> "cabin_attic"

\* C11: a take command for a known object, read at a location other than
\* the one the object is taken from, leaves inventory and object states
\* unchanged.
C11_TakeElsewhere ==
  [][(pc = "read" /\ lines' > 0 /\ "take" \in actiontype' /\ action' \in KnownObjects
        /\ part # TakePlace(action')) =>
       (inventory' = inventory /\ changableobjects' = changableobjects)]_vars

\* the end of a take key turn in the cave, which takeobject refused
C11_Witness ==
  /\ lines > 0 /\ typed = "take key" /\ acted = <<"takeobject">> /\ part = "cavepart1"
  /\ out = <<"There is no key to take here.">>
  /\ inventory["cabin_upstairs_bedroom_key"] = 0
  /\ changableobjects["cabin_upstairs_bedroom_key_on_table"] = 1

\* the direction word of a command line that is one, or "go" and one
DirectionWords ==
  north_dict \cup east_dict \cup south_dict \cup west_dict \cup northeast_dict
    \cup southeast_dict \cup southwest_dict \cup northwest_dict
Direction(line) == IF Sl(line, 0, 3) = "go " THEN From(line, 3) ELSE line

\* the exits of the map: location p has an exit in the direction of word w
HasExit(p, w) ==
  \/ w \in north_dict /\ p = "grassy_field"
  \/ w \in east_dict /\ p \in {"mineshaft_entrance", "cavepart1", "cavepart2"}
  \/ w \in south_dict /\ p = "forestpart1"
  \/ w \in west_dict /\ p \in {"grassy_field", "mineshaft_entrance", "cavepart1"}
  \/ w \in southeast_dict /\ p = "grassy_field"
  \/ w \in northwest_dict /\ p = "cabin_front"

\* a turn whose command is a compass direction with no exit from the
\* location where it is read
NoExitTurn ==
  /\ pc = "read" /\ lines' > 0 /\ "move" \in actiontype'
  /\ Direction(typed') \in DirectionWords /\ ~HasExit(part, Direction(typed'))

NamedBy(a) ==
  CASE a \in grassy_field_dict -> "grassy_field"
    [] a \in cabin_dict -> "cabin_front"
    [] a \in mineshaft_dict -> "mineshaft_entrance"
    [] a \in forest_dict -> "forestpart1"
    [] a \in living_room_dict -> "cabin_living_room"
    [] a \in bathroom_dict -> "cabin_1st_floor_bathroom"
    [] a \in bedroom_dict -> "cabin_1st_floor_bedroom"
    [] a \in go_to_upstairs_dict -> "cabin_2nd_floor_bedroom_connecter"
    [] a = "simpsons home" -> "simpsons_house_front"
    [] OTHER -> ""

\* a go-to turn, answered by goto, that names the location where it is read
GoToHereTurn ==
  /\ pc = "read" /\ lines' > 0 /\ acted' = <<"goto">>
  /\ Sl(typed', 0, 6) = "go to " /\ NamedBy(From(typed', 6)) = part

\* C13: a go-to command naming the location the player is in prints one
\* line, "You are already at/in the X.", and leaves the location unchanged.
C13_Already ==
  [][GoToHereTurn =>
       (part' = part /\ Len(out') = 1 /\ Sl(out'[1], 0, 15) = "You are already")]_vars

\* a turn whose command reaches dosomethingwithsomething: no handler that
\* the main loop calls before it has answered
ReachesUse ==
  /\ pc = "read" /\ lines' > 0
  /\ \A i \in 1..Len(acted') : acted'[i] \notin BeforeGoBack \cup {"goback"}

\* the pairs of a known item and a known target it cannot be used on
IncompatiblePairs ==
  (key_dict \X fire_place_dict) \cup (water_bucket_dict \X things_to_use_keys_on_dict)

\* C14: a use command with a known item and a known target that do not go
\* together prints "You can't use a X on a Y." and nothing else, and changes
\* no inventory entry, lock state or object state.
C14_Incompatible ==
  [][\A pair \in IncompatiblePairs :
       (ReachesUse /\ typed' = "use " \o pair[1] \o " on " \o pair[2]) =>
         /\ out' = <<"You can't use a " \o pair[1] \o " on a " \o pair[2] \o ".">>
         /\ inventory' = inventory /\ lockeddoors' = lockeddoors
         /\ changableobjects' = changableobjects]_vars

\* the end of a turn that tried the water bucket on the front door
C14_Witness ==
  /\ lines > 0 /\ typed = "use water bucket on door" /\ part = "cabin_front"
  /\ acted = <<"dosomethingwithsomething">>
  /\ out = <<"You can't use a water bucket on a door.">>
  /\ inventory["water_bucket"] = 1 /\ lockeddoors["cabin_front_door"] = 1

\* the commands that use the water bucket on the fireplace
PutOutLines ==
  {"use water bucket on fireplace", "use bucket on fireplace",
   "put out fireplace with water bucket"}

\* C15: the water bucket used on the fireplace in cabin_living_room while
\* water_bucket is held sets lit_cabin_fireplace to 0, water_bucket to 0 and
\* bucket to 1; in every other state or location it changes none of them.
C15_PutOut ==
  [][(ReachesUse /\ typed' \in PutOutLines) =>
       IF part = "cabin_living_room" /\ inventory["water_bucket"] = 1
         THEN /\ changableobjects'["lit_cabin_fireplace"] = 0
              /\ inventory'["water_bucket"] = 0 /\ inventory'["bucket"] = 1
         ELSE /\ changableobjects'["lit_cabin_fireplace"] = changableobjects["lit_cabin_fireplace"]
              /\ inventory'["water_bucket"] = inventory["water_bucket"]
              /\ inventory'["bucket"] = inventory["bucket"]]_vars

\* the end of the turn that put the fire out
C15_Witness ==
  /\ lines > 0 /\ typed = "use water bucket on fireplace" /\ part = "cabin_living_room"
  /\ acted = <<"dosomethingwithsomething">>
  /\ out = <<"You put out the fire with the water bucket.">>
  /\ changableobjects["lit_cabin_fireplace"] = 0
  /\ inventory["water_bucket"] = 0 /\ inventory["bucket"] = 1

\* the world state without the flag that makes the description print
worldfields ==
  <<part, generalpart, previouspart, placesdiscovered, inventory, questlist, lockeddoors,
    changableobjects, beento, enemiesalive, npc_stats, healthpoints, attackpoints,
    defencepoints, paratype, developermode, printd, yesornotype, yesornoaction,
    dialogpart, indialog, choosedialog, dialogschosen>>

\* a turn, read while no dialog choice is pending, that loads the string in
\* text
LoadTurn(text) ==
  /\ pc = "read" /\ lines' > 0 /\ choosedialog = 0 /\ typed' = "load " \o text

C17_SaveLoad ==
  [][(savefile # "" /\ LoadTurn(savefile)) =>
       /\ part' = savedstate.part
       /\ inventory' = savedstate.inventory
       /\ lockeddoors' = savedstate.lockeddoors]_vars

\* the end of a load that locked the door again and gave the key back: the
\* backup that the load printed was copied, and it has the door unlocked
C17_Witness ==
  /\ lines > 0 /\ acted = <<"save", "load">>
  /\ savedstate # <<>> /\ savedstate.part = "cabin_front"
  /\ savedstate.lockeddoors["cabin_front_door"] = 0
  /\ part = "grassy_field" /\ lockeddoors["cabin_front_door"] = 1
  /\ inventory["cabin_key"] = 1

\* C18: loading the copied save string from any state leaves every saved
\* field (settings, location, discovered locations, inventory, lock states,
\* object states, visited flags, enemy flags, NPC stats) with its value in
\* the state where save printed it.
C18_Overwrite ==
  [][(savefile # "" /\ LoadTurn(savefile)) => SavedFields(Cur)' = savedstate]_vars

\* load arguments that are not bracketed by { and }
Unbracketed(line) ==
  /\ line = "load" \/ Sl(line, 0, 5) = "load "
  /\ ~(Sl(line, 5, 6) = "{" /\ PySl(line, -1, Len(line)) = "}")

\* C19: a load command whose argument is not bracketed by { and } leaves the
\* world state as it was.
C19_NoOp ==
  [][(pc = "read" /\ lines' > 0 /\ choosedialog = 0 /\ Unbracketed(typed')) =>
       wvars' = wvars]_vars

\* C20: a load of a bracketed save string whose decoding fails part-way (a
\* marker is missing or a value is not an integer, so that the line saying
\* the game was loaded is not printed) leaves every world-state field with
\* the value it had before the command.
C20_Atomic ==
  [][(/\ pc = "read" /\ lines' > 0 /\ choosedialog = 0 /\ typed' \in Damaged
      /\ "load" \in {acted'[i] : i \in 1..Len(acted')}
      /\ \A i \in 1..Len(out') : out'[i] # ">You loaded the game from your savefile.") =>
       wvars' = wvars]_vars

\* C21: no turn is fatal: the engine never ends on an uncaught exception,
\* every turn leads back to the prompt.
C21_NoCrash == pc # "crashed"

\* C22: the set of discovered locations only grows, in every turn (go back,
\* teleport and load included), and it contains the current location
\* whenever a command is read.
C22_Grows ==
  [][/\ placesdiscovered \subseteq placesdiscovered'
     /\ (pc' = "read" => part' \in placesdiscovered')]_vars

\* the end of a load that brought the player back from the cabin front to
\* the grassy field: the cabin front, unknown when the game was saved, is
\* still among the discovered locations
C22_Witness ==
  /\ lines > 0 /\ acted = <<"save", "load">> /\ typed = "load " \o savefile
  /\ savedstate # <<>>
  /\ part = "grassy_field" /\ "cabin_front" \in placesdiscovered
  /\ "cabin_front" \notin savedstate.placesdiscovered

\* the turn that just ended was a fight command against the live imp
FoughtImp ==
  /\ pc = "top" /\ lines > 0 /\ Acted("fight")
  /\ part = "cavepart2" /\ enemiesalive["cavepart2_r1_imp"] = 1

\* C23: after a fight command against a live enemy a yes/no confirmation is
\* pending when the next command is read, and the combat hook prints its
\* line only in a turn where the player answers yes to a pending
\* confirmation.
C23_Confirm ==
  [][/\ (FoughtImp /\ pc' = "read") => yesornoaction' = 1
     /\ (pc = "read" /\ lines' > 0 /\ Printed("fude")')
          => (yesornoaction = 1 /\ action' \in yes_dict)]_vars

\* a turn of the attic scene in which the player types the choice n
DialogTurn(n) ==
  /\ pc = "read" /\ lines' > 0 /\ choosedialog = 1
  /\ dialogpart = "rick_and_morty_apear_in_attic" /\ typed' = StrOf(n)

Taken == {dialogschosen[i] : i \in 1..Len(dialogschosen)}

ChoiceText ==
  <<"1: Grab portal gun and run", "2: Spit in Rick's face", "3: Take boy as hostage",
    "4: Ask if you can join them">>

\* C24: in the attic scene a choice 1, 2 or 3 that was taken before is
\* rejected with "That's not a valid option." and the choices taken are
\* unchanged; a choice not taken before is added to the choices taken and
\* exactly the remaining choices are offered again; choice 4 is accepted
\* whenever it is typed.
C24_OneShot ==
  [][/\ \A n \in {1, 2, 3} :
          DialogTurn(n) =>
            IF n \in Taken
              THEN /\ Printed("That's not a valid option.")'
                   /\ dialogschosen' = dialogschosen /\ part' = part
              ELSE /\ dialogschosen' = Append(dialogschosen, n)
                   /\ Printed("What do you choose to do?")'
                   /\ \A m \in 1..4 : Printed(ChoiceText[m])' <=> m \notin Taken \cup {n}
     /\ DialogTurn(4) =>
          /\ part' = "simpsons_house_front" /\ dialogschosen' = dialogschosen
          /\ ~Printed("That's not a valid option.")']_vars

\* the end of a turn that rejected choice 2, taken before together with 1
C24_Witness ==
  /\ lines > 0 /\ typed = "2" /\ Taken = {1, 2} /\ Printed("That's not a valid option.")
  /\ part = "cabin_attic"

\* the trigger phrases of the reporting handlers
ListTriggers ==
  {"list inventory", "show inventory", "open inventory", "list places", "list quests",
   "list commands", "settings", "list settings"}

\* C25: whenever a trigger phrase of a reporting handler is the command, the
\* turn is handled (no fallback message) and location, history, inventory,
\* locks, object states, quests and the pending flags are unchanged.
C25_ReadOnly ==
  [][(pc = "read" /\ lines' > 0 /\ typed' \in ListTriggers) =>
       /\ ~Acted("fallback")'
       /\ <<part, generalpart, previouspart, inventory, lockeddoors, changableobjects,
            questlist, yesornotype, yesornoaction, indialog, choosedialog, dialogschosen>>'
            = <<part, generalpart, previouspart, inventory, lockeddoors, changableobjects,
                questlist, yesornotype, yesornoaction, indialog, choosedialog, dialogschosen>>]_vars

\* the end of a turn that listed the places at the mineshaft entrance with a
\* yes/no confirmation pending
C25_Witness ==
  /\ lines > 0 /\ typed = "list places" /\ acted = <<"listplaces">>
  /\ Printed(" - Mineshaft Entrance") /\ yesornoaction = 1 /\ part = "mineshaft_entrance"

\* a valid verb with a target that no location knows
UnknownTarget ==
  {"examine nonsense", "tp nowhere", "enter nonsense", "leave nonsense", "go to nowhere",
   "take nonsense", "use key on lamp", "unlock nonsense"}

\* C26: a valid verb with a target its handler does not recognise, read while
\* no dialogue choice is pending, prints a message of the handler (not the
\* fallback) and leaves the world state unchanged.
C26_UnknownTarget ==
  [][(pc = "read" /\ lines' > 0 /\ choosedialog = 0 /\ typed' \in UnknownTarget) =>
       /\ out' # <<>> /\ ~Acted("fallback")'
       /\ wvars' = wvars]_vars

\* lines with two different verb phrases, each followed by a space or the end
MultiVerb == {"take key go", "go to cabin enter", "tp attic take portal gun", "load x"}

\* C27: a line in which the classifier finds more than one verb phrase gets
\* the too-many-actions message and nothing else: no handler acts and the
\* world state is unchanged.
C27_TooMany ==
  [][(/\ pc = "read" /\ lines' > 0
      /\ typed' \in MultiVerb \/ Printed("You typed to many actions.")') =>
       /\ out' = <<"You typed to many actions.">> /\ acted' = <<>>
       /\ wvars' = wvars]_vars

\* the end of a turn at the cabin front that refused a line asking to take
\* the key and to go: the key is still to be taken
C27_Witness ==
  /\ lines > 0 /\ typed = "take key go" /\ out = <<"You typed to many actions.">>
  /\ part = "cabin_front" /\ acted = <<>>

\* the lines the classifier prints before it reads a missing argument
IsReprompt(line) ==
  \/ line = "Enter save game data to load save:"
  \/ \E head \in {"What do you want to ", "Where do you want to ", "Where would you like to ",
                   "What would you like to "} : Sl(line, 0, Len(head)) = head

\* C28: classifying one command prompts for a missing argument at most once,
\* whatever is typed at that prompt.
C28_OnePrompt == Cardinality({i \in 1..Len(out) : IsReprompt(out[i])}) <= 1

\* lines that start with a verb phrase and hold another verb string later:
\* as the tail of a word (the x of box) or as a later word
InnerVerb == {"take box", "take key go"}

\* C29: a verb string that occurs later in the line or as the tail of another
\* word is not counted as a verb phrase: such a line is classified by the
\* verb phrase at its start, not refused as holding too many actions.
C29_Anchored ==
  [][(pc = "read" /\ lines' > 0 /\ typed' \in InnerVerb) =>
       /\ ~Printed("You typed to many actions.")'
       /\ "take" \in actiontype']_vars

\* what a run of the loop body leaves: the world state and the output
Result(r) ==
  <<r.part, r.generalpart, r.previouspart, r.placesdiscovered, r.inventory, r.lockeddoors,
    r.changableobjects, r.questlist, r.yesornotype, r.yesornoaction, r.description,
    r.choosedialog, r.crashed, r.out>>

Results(cmd, seed) == {Result(r) : r \in Outcomes(cmd, seed, <<>>)}

\* C30: whenever a command is read, for every direction word d of the
\* compass, left and right sets, the commands go d and go to d come to the
\* same world states and outputs as the bare command d, and their action
\* type is move, left or right.
C30_GoDirection ==
  pc = "read" =>
    \A d \in nesw_dict \cup left_dict \cup right_dict, seed \in HashSeeds :
      /\ Results("go " \o d, seed) = Results(d, seed)
      /\ Results("go to " \o d, seed) = Results(d, seed)
      /\ \A r \in Outcomes("go " \o d, seed, <<>>) \cup Outcomes("go to " \o d, seed, <<>>) :
           r.actiontype \in {{"move"}, {"left"}, {"right"}}

\* the end of a turn in the cave that took the right tunnel on go r
C30_Witness ==
  /\ lines > 0 /\ typed = "go r" /\ part = "cavepart2_r1" /\ acted = <<"leftright">>

\* enter and go-to lines with two floor qualifiers, and with one
TwoFloors ==
  {"go to 1st floor 2nd floor", "go to 1stfloor 2ndfloor", "enter 2nd floor 3rd floor"}
OneFloor == {"go to 1st floor bathroom", "enter floor 2"}

\* C31: an enter or go-to line with more than one floor qualifier, read while
\* no dialogue choice is pending, prints "You typed to many floors." and
\* changes nothing of the world state, whatever the order in which the floor
\* phrases are scanned; a line with one floor qualifier never gets that
\* message.
C31_Floors ==
  [][(pc = "read" /\ lines' > 0 /\ choosedialog = 0) =>
       /\ typed' \in TwoFloors =>
            (out' = <<"You typed to many floors.">> /\ wvars' = wvars)
       /\ typed' \in OneFloor => ~Printed("You typed to many floors.")']_vars

\* C32: combat is a stub: in every state reached by game commands the
\* enemy-alive flags, the NPC stats and the player's stats have their initial
\* values.
C32_Stub ==
  /\ enemiesalive = [cavepart2_r1_imp |-> 1]
  /\ npc_stats = [health_cavepart2_r1_imp |-> 10, attack_cavepart2_r1_imp |-> 2,
                  defence_cavepart2_r1_imp |-> 1]
  /\ healthpoints = 20 /\ attackpoints = 0 /\ defencepoints = 0

\* the player fought the imp, walked up to it and has just answered yes to
\* "Are you sure you want to do this?", which calls the combat hook
C32_Witness ==
  /\ lines > 0 /\ acted = <<"yesorno">> /\ typed \in yes_dict
  /\ part = "cavepart2_r1" /\ "cavepart2" \in placesdiscovered

\* C33: dialogue choice mode ends with the terminal choice: a line read at
\* simpsons_house_front, where choice 4 has taken the player, is not handled
\* as a dialogue choice.
C33_DialogEnds ==
  [][(pc = "read" /\ lines' > 0 /\ part = "simpsons_house_front"
        /\ dialogpart = "rick_and_morty_apear_in_attic")
       => ~Acted("chooseadialog")']_vars

CabinInterior ==
  {"cabin_living_room", "cabin_1st_floor_bathroom", "cabin_1st_floor_bedroom",
   "cabin_2nd_floor_bedroom_connecter"}

\* C34: in every reachable state the player is in a cabin interior location
\* only if the cabin front door is unlocked.
C34_Interior == part \in CabinInterior => lockeddoors["cabin_front_door"] = 0

\* C35: whenever a line is read while the player is neither at
\* mineshaft_entrance nor at cavepart2_r1, no yes/no confirmation is pending,
\* and the line "n" read there is handled by move, never by yesorno.
C35_NoPending ==
  [][(pc = "read" /\ lines' > 0 /\ choosedialog = 0
        /\ part \notin {"mineshaft_entrance", "cavepart2_r1"})
       => /\ yesornoaction = 0
          /\ typed' = "n" => acted' = <<"move">>]_vars

\* the classifier's result on the line cmd, with the lines in answers typed at
\* its prompts, when the verb phrases are iterated in the order of seed
Classified(cmd, answers, seed) ==
  calculateactiontype([Cur EXCEPT !.action = cmd, !.inq = answers], VerbOrder(seed),
                      part \in {"cabin_front", "simpsons_house_front"})

\* action kind, residual argument, too-many-actions verdict, number of re-prompts
Verdict(c) ==
  <<c.actiontype, c.action, "You typed to many actions." \in {c.out[i] : i \in 1..Len(c.out)},
    Cardinality({i \in 1..Len(c.out) : IsReprompt(c.out[i])})>>

\* C36: the classifier is deterministic with respect to set iteration order:
\* for every command and state the action kind, the residual argument, the
\* too-many-actions verdict and the number of re-prompts are the same for
\* every order in which the verb phrases are iterated.
C36_Deterministic ==
  pc = "read" =>
    \A cmd \in ParseCommands, a \in Answers, b \in Answers :
      Verdict(Classified(cmd, <<a, b>>, 1)) = Verdict(Classified(cmd, <<a, b>>, 2))

\* C37: each takeable static object is in exactly one place: the key is on
\* the table or in the inventory, the ladder leans on the cabin or is in the
\* inventory, never both and never neither.
C37_OnePlace ==
  /\ changableobjects["cabin_upstairs_bedroom_key_on_table"]
       + inventory["cabin_upstairs_bedroom_key"] = 1
  /\ changableobjects["ladder_on_side_of_cabin"] + inventory["ladder"] = 1

\* the player has taken both the ladder and the key
C37_Witness ==
  /\ inventory["cabin_upstairs_bedroom_key"] = 1 /\ inventory["ladder"] = 1
  /\ changableobjects["cabin_upstairs_bedroom_key_on_table"] = 0
  /\ changableobjects["ladder_on_side_of_cabin"] = 0

\* the locations of the compass map, and the opposite of each direction
MoveParts ==
  {"grassy_field", "forestpart1", "mineshaft_entrance", "cavepart1", "cavepart2",
   "cabin_front"}
Opposite ==
  [n |-> "s", s |-> "n", e |-> "w", w |-> "e", ne |-> "sw", sw |-> "ne", se |-> "nw",
   nw |-> "se"]

\* where the compass move d takes the player from location A
MoveTo(A, d) == move([Cur EXCEPT !.part = A, !.action = d, !.actiontype = {"move"}]).part

\* C38: compass moves are reversible: when a compass move takes the player
\* from A to B, the opposite direction typed at B, with no yes/no
\* confirmation pending, takes the player back to A.
C38_Reversible ==
  [][(pc = "read" /\ lines' > 0 /\ choosedialog = 0 /\ yesornoaction = 0
        /\ typed' \in DOMAIN Opposite)
       => \A A \in MoveParts \ {part} :
            MoveTo(A, Opposite[typed']) = part => part' = A]_vars

\* the player walked west from cavepart1 to cavepart2 and has just walked
\* back east
C38_Witness ==
  /\ pc = "top" /\ lines > 0 /\ typed = "e" /\ acted = <<"move">>
  /\ yesornoaction = 0 /\ part = "cavepart1" /\ Len(previouspart) >= 2
  /\ previouspart[Len(previouspart)] = "cavepart2"
  /\ previouspart[Len(previouspart) - 1] = "cavepart1"

\* C39: in cabin_living_room with the key still on the table, the lines
\* "take key" and "take key on table" both pick up the key: the inventory
\* flag is set and the table flag is cleared.
C39_BothForms ==
  [][(pc = "read" /\ lines' > 0 /\ choosedialog = 0 /\ part = "cabin_living_room"
        /\ changableobjects["cabin_upstairs_bedroom_key_on_table"] = 1
        /\ typed' \in {"take key", "take key on table"})
       => /\ inventory'["cabin_upstairs_bedroom_key"] = 1
          /\ changableobjects'["cabin_upstairs_bedroom_key_on_table"] = 0]_vars

====
